---- MODULE Spec2Model ----
(***************************************************************************)
(* Stonebridge scheduler: the pairing engine build_pairings_from_roster    *)
(* (stonebridge_scheduler_app.py) and the baseline generate_pairings       *)
(* (app.py), as state machines over a roster table.                        *)
(*                                                                         *)
(* Text is modelled by TLA+ strings; the string functions the code uses    *)
(* (strip, lower, substring tests) are tables over the finite universe of  *)
(* texts the rosters below draw from.  A missing cell is the float NaN.    *)
(***************************************************************************)
EXTENDS Integers, Sequences, FiniteSets, TLC

VARIABLES
    roster,         \* roster_df: the rows, in file order
    private_names,  \* the private-name set handed to the engine
    pc,             \* position in build_pairings_from_roster
    staffing,       \* the defaultdict, as its items in insertion order
    gi,             \* index of the group the outer loop is at
    interviewers,   \* pools of the current group
    lpas,
    psychs,
    solos,
    queue,          \* list(interviewers): what the general loop still has to visit
    used_psych,
    final_rows,
    violations,
    g_table,        \* generate_pairings: df_raw, the rows in file order
    g_hash,         \* the iteration order this run's string hashes give a set
    g_pc,           \* position in generate_pairings
    g_df,           \* the normalized rows that passed the filter
    g_keys,         \* the group keys, in groupby's sorted order
    g_gi,           \* index of the group the loop is at
    g_events,
    g_violations,
    g_gaps,
    g_run,          \* 1 in the first run on g_table, 2 in the second
    g_first,        \* what the first run returned
    f_pc,           \* a call of one of the pure functions: idle, called, or returned
    f_in,           \* its arguments
    f_out           \* what it returned

\* the locals of build_pairings_from_roster
rvars == <<roster, private_names, pc, staffing, gi, interviewers, lpas, psychs,
           solos, queue, used_psych, final_rows, violations>>

\* the locals of generate_pairings
gvars == <<g_table, g_hash, g_pc, g_df, g_keys, g_gi, g_events, g_violations,
           g_gaps, g_run, g_first>>

\* a call of a pure function
fvars == <<f_pc, f_in, f_out>>

vars == <<rvars, gvars, fvars>>

-----------------------------------------------------------------------------
(* Bounds of the model. *)

MaxRows == 4

-----------------------------------------------------------------------------
(* Python values and list operations. *)

\* A missing cell: the float NaN pandas puts there.  Every other value is text.
NaN == "<NaN>"

IsText(v) == v # NaN

\* str(v)
Str(v) == IF v = NaN THEN "nan" ELSE v

\* s.strip(), on the texts of the universe
Strip(s) ==
    CASE s = "lubbock "      -> "lubbock"
      [] s = " Bobby Perez"  -> "Bobby Perez"
      [] s = "Interviewer "  -> "Interviewer"
      [] OTHER               -> s

\* s.lower(), on the texts of the universe
Lower(s) ==
    CASE s = "Lubbock"          -> "lubbock"
      [] s = "Interviewer"      -> "interviewer"
      [] s = "Lead Interviewer" -> "lead interviewer"
      [] s = "LPA"              -> "lpa"
      [] s = "Psychometrician"  -> "psychometrician"
      [] s = "Solo"             -> "solo"
      [] s = "SOLO Provider"    -> "solo provider"
      [] s = "Admin"            -> "admin"
      [] s = "English"          -> "english"
      [] s = "Houston"          -> "houston"
      [] s = "Telemedicine"     -> "telemedicine"
      [] s = "San Antonio Live" -> "san antonio live"
      [] s = "Lakaii Jones"     -> "lakaii jones"
      [] s = "Liliana Pizana"   -> "liliana pizana"
      [] s = "Jane Doe"         -> "jane doe"
      [] s = "Virginia Parker"  -> "virginia parker"
      [] s = "Emma Thomae"      -> "emma thomae"
      [] s = "Noemi Martinez"   -> "noemi martinez"
      [] s = "Ann Lee"          -> "ann lee"
      [] s = "Sam Solo"         -> "sam solo"
      [] s = "Lyn McDonald"     -> "lyn mcdonald"
      [] s = "Ed Howarth"       -> "ed howarth"
      [] s = "Dr. Emma Thomae"  -> "dr. emma thomae"
      [] s = "LAKAII JONES"     -> "lakaii jones"
      [] s = "Pat Admin"        -> "pat admin"
      [] OTHER                  -> s

\* sub in s, for texts s of the universe
Contains(s, sub) ==
    \/ s = sub
    \/ <<s, sub>> \in { <<"lead interviewer", "interviewer">>,
                        <<"Gaston Rougeaux-Burnes", "Gaston">>,
                        <<"(SA) Stonebridge Behavioral Health", "Stonebridge Behavioral">>,
                        <<"solo provider", "solo">>,
                        <<"psychometrician", "psychometric">>,
                        <<"dr. emma thomae", "emma thomae">>,
                        <<"telemedicine", "tele">>,
                        <<"san antonio live", "san antonio">> }

\* x in s
InList(x, s) == \E i \in 1..Len(s) : s[i] = x

\* the index s.index(x) + 1
IndexOf(x, s) == CHOOSE i \in 1..Len(s) : s[i] = x /\ \A j \in 1..(i - 1) : s[j] # x

\* nothing is taken out of the list
ListRemove_kept(s, x) == s

\* s.remove(x): drops the first occurrence (callers check x in s first)
ListRemove(s, x) ==
    LET i == IndexOf(x, s)
    IN  SubSeq(s, 1, i - 1) \o SubSeq(s, i + 1, Len(s))

\* number of elements of s satisfying nothing but equality to x
Count(x, s) == Cardinality({i \in 1..Len(s) : s[i] = x})

\* all sequences over S of length 0..n
SeqsUpTo(S, n) == UNION {[1..k -> S] : k \in 0..n}

-----------------------------------------------------------------------------
(* Dates.  A Timestamp is a record; NaT is pandas' not-a-time.              *)

NaT == [year |-> 0, month |-> 0, day |-> 0]

Timestamp(y, m, d) == [year |-> y, month |-> m, day |-> d]

\* pd.isna(date)
IsNa(date) == date = NaT

\* pd.to_datetime(cell, errors="coerce") on the date cells of the universe
ToDatetime(cell) ==
    CASE cell = "2025-11-03" -> Timestamp(2025, 11, 3)
      [] cell = "2025-11-04" -> Timestamp(2025, 11, 4)
      [] cell = "2025-11-06" -> Timestamp(2025, 11, 6)
      [] OTHER               -> NaT

\* pd.to_datetime(date).strftime("%A"), for the dates of November 2025
DayName(date) ==
    <<"Sunday", "Monday", "Tuesday", "Wednesday", "Thursday", "Friday",
      "Saturday">>[((date.day + 5) % 7) + 1]

\* to_mmddyyyy: strftime("%m/%d/%Y"), as its three fields
to_mmddyyyy(date) == <<date.month, date.day, date.year>>

-----------------------------------------------------------------------------
(* Configuration. *)

SA == "(SA) Stonebridge Behavioral Health"

month_label == "November"

DEFAULT_PRIVATE == {"David Spongberg", "Kaelyn Sheen", "Kaelyn Scheen", "Sharah Heckman"}

PreferenceKeys == {"Lakaii Jones", "Shivani Bhakta", "Liliana Pizana", "Lyn McDonald"}

\* a table without entries
PAIRING_PREFERENCES_get_none(interviewer) == ""

\* PAIRING_PREFERENCES.get(interviewer): "" stands for None (both are falsy)
PAIRING_PREFERENCES_get(interviewer) ==
    CASE interviewer = "Lakaii Jones"   -> "Virginia Parker"
      [] interviewer = "Shivani Bhakta" -> "Bobby Perez"
      [] interviewer = "Liliana Pizana" -> "Emma Thomae"
      [] interviewer = "Lyn McDonald"   -> "Ed Howarth"
      [] OTHER                          -> ""

norm_role(label) ==
    LET r == Lower(Strip(Str(label)))
    IN  IF r \in {"solo", "solo provider", "solo provider ", "solo "} THEN "solo"
        ELSE IF Contains(r, "interviewer") THEN "interviewer"
        ELSE IF Contains(r, "lpa") THEN "lpa"
        ELSE IF Contains(r, "psychometrician") THEN "psychometrician"
        ELSE r

-----------------------------------------------------------------------------
(* Records the engine emits. *)

PairRow(date, loc, interviewer, tester, notes, psych_pair) ==
    [Date |-> date, Location |-> loc, Interviewer |-> interviewer,
     Tester |-> tester, Notes |-> notes, Month |-> month_label,
     PsychometricianPair |-> psych_pair]

Violation(date, loc, issue) ==
    [Month |-> month_label, Date |-> to_mmddyyyy(date), Location |-> loc,
     Issue |-> issue]

\* the f-string pieces of the issue texts
IntText(k) == CASE k = 0 -> "0" [] k = 1 -> "1" [] k = 2 -> "2"

IssueBobby == <<"Bobby Perez is SA-only LPA; scheduled outside SA">>

IssueLubbockTuesday == <<"Lubbock Tuesday: Missing psychometrician (Kaelyn) for Gaston">>

IssueLubbockMonWed == <<"Lubbock Mon/Wed: Missing Tara/Maura for Gaston">>

IssueEberle(missing) == <<"Amanda Eberle requires 2 testers (short ", IntText(missing), ")">>

IssueNoTester(interviewer) == <<"No tester available for ", Str(interviewer)>>

NoteSolo == "Solo provider - no pairing required"
NoteTuesday == "Lubbock Tuesday exception (psychometrician)"
NoteMaura == "Lubbock note: Maura Brown paired with Gaston"
NoteFixed == "Lubbock fixed pairing"
NoteEberle == "Dual tester requirement (Eberle)"
NotePreference == "Preference pairing"
NotePsych == "Psychometrician (SA only; max 1/day)"
NoteStandard == "Standard pairing"

-----------------------------------------------------------------------------
(* build_pairings_from_roster: normalisation and grouping (lines 113-127). *)

\* the override is missing: no row is forced to LPA
mask_bobby_never(row) == FALSE

\* mask_bobby, for one row
mask_bobby(row) == Strip(Str(row.TeamMember)) = "Bobby Perez"

\* the row's RoleNorm cell after the Bobby Perez override
RoleNorm(row) == IF mask_bobby(row) THEN "lpa" ELSE norm_role(row.Area)

\* the dictionary key of a row
GroupKey(row) == [date |-> ToDatetime(row.StartDate), loc |-> Strip(Str(row.Location))]

\* staffing[key].append(entry), the dictionary kept in insertion order
AddEntry(st, key, entry) ==
    IF \E i \in 1..Len(st) : st[i].key = key
    THEN LET i == CHOOSE j \in 1..Len(st) : st[j].key = key
         IN  [st EXCEPT ![i].entries = Append(@, entry)]
    ELSE Append(st, [key |-> key, entries |-> <<entry>>])

RECURSIVE StaffingFrom(_, _)
StaffingFrom(rows, st) ==
    IF rows = <<>> THEN st
    ELSE StaffingFrom(Tail(rows),
                      AddEntry(st, GroupKey(Head(rows)),
                               [r |-> RoleNorm(Head(rows)), n |-> Head(rows).TeamMember]))

-----------------------------------------------------------------------------
(* Per-group steps. *)

\* the names of the entries of one role, in order
Pool(entries, role) ==
    LET sel == SelectSeq(entries, LAMBDA e : e.r = role)
    IN  [i \in 1..Len(sel) |-> sel[i].n]

\* the site test never finds Bobby Perez outside SA
BobbyOutsideSA_never(loc, entries) == FALSE

\* line 137: Bobby Perez scheduled as LPA outside SA
BobbyOutsideSA(loc, entries) ==
    \E i \in 1..Len(entries) :
        entries[i].r = "lpa" /\ entries[i].n = "Bobby Perez" /\ Strip(Str(loc)) # SA

\* line 144: a mislabeled Bobby Perez becomes an LPA
CoerceBobby(entries) ==
    [i \in 1..Len(entries) |->
        [r |-> IF entries[i].r = "interviewer" /\ entries[i].n = "Bobby Perez"
               THEN "lpa" ELSE entries[i].r,
         n |-> entries[i].n]]

\* lines 146-155: the four pools of a group
Partition(entries) ==
    LET e   == CoerceBobby(entries)
        iv  == Pool(e, "interviewer")
        lp  == Pool(e, "lpa")
        hit == InList("Bobby Perez", iv)
    IN  [interviewers |-> IF hit THEN ListRemove(iv, "Bobby Perez") ELSE iv,
         lpas         |-> IF hit /\ ~InList("Bobby Perez", lp)
                          THEN Append(lp, "Bobby Perez") ELSE lp,
         psychs       |-> Pool(e, "psychometrician"),
         solos        |-> Pool(e, "solo")]

\* line 172: next((i for i in interviewers if "Gaston" in i), None) raises
\* TypeError when it meets a name that is not text before it meets a Gaston
GastonRaises(ivs) ==
    \E j \in 1..Len(ivs) :
        /\ ~IsText(ivs[j])
        /\ \A k \in 1..(j - 1) : ~Contains(ivs[k], "Gaston")

\* line 172 when it does not raise: the first Gaston, "" for None
FirstGaston(ivs) ==
    IF \E j \in 1..Len(ivs) : IsText(ivs[j]) /\ Contains(ivs[j], "Gaston")
    THEN ivs[CHOOSE j \in 1..Len(ivs) :
                /\ IsText(ivs[j]) /\ Contains(ivs[j], "Gaston")
                /\ \A k \in 1..(j - 1) : ~(IsText(ivs[k]) /\ Contains(ivs[k], "Gaston"))]
    ELSE ""

\* lines 175-178: the first Kaelyn spelling present in psychs, "" for None
KMatch(ps) ==
    IF InList("Kaelyn Sheen", ps) THEN "Kaelyn Sheen"
    ELSE IF InList("Kaelyn Scheen", ps) THEN "Kaelyn Scheen"
    ELSE ""

\* lines 209-213: preferred testers first
RECURSIVE EberlePreferred(_, _, _)
EberlePreferred(preferred, assigned, lp) ==
    IF preferred = <<>> THEN [assigned |-> assigned, lpas |-> lp]
    ELSE LET p    == Head(preferred)
             take == InList(p, lp) /\ ~InList(p, assigned)
             a2   == IF take THEN Append(assigned, p) ELSE assigned
             l2   == IF take THEN ListRemove(lp, p) ELSE lp
         IN  IF Len(a2) = 2 THEN [assigned |-> a2, lpas |-> l2]
             ELSE EberlePreferred(Tail(preferred), a2, l2)

\* lines 215-218: fill from any LPAs
RECURSIVE EberleFill(_, _)
EberleFill(assigned, lp) ==
    IF Len(assigned) < 2 /\ lp # <<>>
    THEN LET nxt == Head(lp)
         IN  EberleFill(IF ~InList(nxt, assigned) THEN Append(assigned, nxt) ELSE assigned,
                        Tail(lp))
    ELSE [assigned |-> assigned, lpas |-> lp]

\* the preferred names are not tried first
EberleAssign_poolOrder(lp) == EberleFill(<<>>, lp)

\* lines 206-218
EberleAssign(lp) ==
    LET a == EberlePreferred(<<"Maura Brown", "Dmitriy Lazarevich">>, <<>>, lp)
    IN  EberleFill(a.assigned, a.lpas)

\* the first psychometrician of the pool, private or not
PickPsych_first(ps, private) == ps[1]

\* lines 249-253: the psychometrician general allocation takes
PickPsych(ps, private) ==
    LET priors == SelectSeq(ps, LAMBDA p : p \in private)
    IN  IF priors # <<>> THEN priors[1] ELSE ps[1]

\* the psychometrician branch is open at every site
IsPsychSite_any(loc) == TRUE

\* line 248: the one site where general allocation may use a psychometrician
IsPsychSite(loc) == Strip(Str(loc)) = SA

\* the unpaired interviewer is forgotten instead of flagged
UnpairedViolations_dropped(date, loc, interviewer) == <<>>

\* lines 264-266: what the loop appends to violations when nothing was paired
UnpairedViolations(date, loc, interviewer) ==
    <<Violation(date, loc, IssueNoTester(interviewer))>>

\* solos are recorded only after the test for interviewers (line 165)
SoloRows_afterCheck(date, loc, ss, ivs) ==
    IF ivs = <<>> THEN <<>>
    ELSE [i \in 1..Len(ss) |-> PairRow(date, loc, ss[i], "(SOLO)", NoteSolo, FALSE)]

\* lines 158-163: the records of the solos of a group (ivs, the interviewers,
\* are consulted only afterwards, at line 165)
SoloRows(date, loc, ss, ivs) ==
    [i \in 1..Len(ss) |-> PairRow(date, loc, ss[i], "(SOLO)", NoteSolo, FALSE)]

\* the cap is never marked as used
UsedAfterPsych_unset(used) == used

\* line 254: used_psych = True
UsedAfterPsych(used) == TRUE

\* the standard pairing is missing: an LPA is handed out by preference only
GeneralChoice_noStandard(interviewer, loc, lp, ps, used, private) ==
    LET pref == PAIRING_PREFERENCES_get(interviewer)
    IN  IF pref # "" /\ InList(pref, lp)
        THEN [paired |-> pref, lpas |-> ListRemove(lp, pref), psychs |-> ps,
              used |-> used, note |-> NotePreference, psych_pair |-> FALSE]
        ELSE IF IsPsychSite(loc) /\ ps # <<>> /\ ~used
        THEN LET p == PickPsych(ps, private)
             IN  [paired |-> p, lpas |-> lp, psychs |-> ListRemove(ps, p),
                  used |-> UsedAfterPsych(used), note |-> NotePsych, psych_pair |-> TRUE]
        ELSE [paired |-> "", lpas |-> lp, psychs |-> ps,
              used |-> used, note |-> "", psych_pair |-> FALSE]

\* lines 245-256: what general allocation decides for one interviewer.
\* paired = "" stands for None.
GeneralChoice(interviewer, loc, lp, ps, used, private) ==
    LET pref == PAIRING_PREFERENCES_get(interviewer)
    IN  IF pref # "" /\ InList(pref, lp)
        THEN [paired |-> pref, lpas |-> ListRemove(lp, pref), psychs |-> ps,
              used |-> used, note |-> NotePreference, psych_pair |-> FALSE]
        ELSE IF IsPsychSite(loc) /\ ps # <<>> /\ ~used
        THEN LET p == PickPsych(ps, private)
             IN  [paired |-> p, lpas |-> lp, psychs |-> ListRemove(ps, p),
                  used |-> UsedAfterPsych(used), note |-> NotePsych, psych_pair |-> TRUE]
        ELSE IF lp # <<>>
        THEN [paired |-> Head(lp), lpas |-> Tail(lp), psychs |-> ps,
              used |-> used, note |-> NoteStandard, psych_pair |-> FALSE]
        ELSE [paired |-> "", lpas |-> lp, psychs |-> ps,
              used |-> used, note |-> "", psych_pair |-> FALSE]

-----------------------------------------------------------------------------
(* The state machine of build_pairings_from_roster. *)

Row(loc, area, member, start) ==
    [Location |-> loc, Area |-> area, TeamMember |-> member, StartDate |-> start]

\* no pure function is being called on its own
FnIdle ==
    /\ f_pc = "idle"
    /\ f_in = <<>>
    /\ f_out = <<>>

\* generate_pairings is not running
GenIdle ==
    /\ g_table = <<>>
    /\ g_hash = <<>>
    /\ g_pc = "idle"
    /\ g_df = <<>>
    /\ g_keys = <<>>
    /\ g_gi = 1
    /\ g_events = <<>>
    /\ g_violations = <<>>
    /\ g_gaps = <<>>
    /\ g_run = 1
    /\ g_first = <<>>

\* the state at the call, for rosters over a set of rows
InitWith(rows, privates) ==
    /\ GenIdle
    /\ FnIdle
    /\ roster \in SeqsUpTo(rows, MaxRows)
    /\ private_names \in privates
    /\ pc = "start"
    /\ staffing = <<>>
    /\ gi = 1
    /\ interviewers = <<>>
    /\ lpas = <<>>
    /\ psychs = <<>>
    /\ solos = <<>>
    /\ queue = <<>>
    /\ used_psych = FALSE
    /\ final_rows = <<>>
    /\ violations = <<>>

\* the group the outer loop is at
Cur == staffing[gi]

CurDate == Cur.key.date

CurLoc == Cur.key.loc

\* lines 113-130
BuildStaffing ==
    /\ pc = "start"
    /\ staffing' = StaffingFrom(roster, <<>>)
    /\ pc' = "loop"
    /\ UNCHANGED <<fvars, gvars, roster, private_names, gi, interviewers, lpas, psychs, solos,
                   queue, used_psych, final_rows, violations>>

\* lines 132-155: take the next group, skip it when its date is NaT, else
\* flag Bobby Perez outside SA and split the group into its pools
BeginGroup ==
    /\ pc = "loop"
    /\ gi <= Len(staffing)
    /\ IF IsNa(CurDate)
       THEN /\ gi' = gi + 1
            /\ UNCHANGED <<pc, interviewers, lpas, psychs, solos, violations>>
       ELSE LET p == Partition(Cur.entries)
            IN  /\ violations' = IF BobbyOutsideSA(CurLoc, Cur.entries)
                                 THEN Append(violations, Violation(CurDate, CurLoc, IssueBobby))
                                 ELSE violations
                /\ interviewers' = p.interviewers
                /\ lpas' = p.lpas
                /\ psychs' = p.psychs
                /\ solos' = p.solos
                /\ pc' = "solos"
                /\ UNCHANGED gi
    /\ UNCHANGED <<fvars, gvars, roster, private_names, staffing, queue, used_psych, final_rows>>

\* lines 157-166: one record per solo; a group without interviewers ends here
EmitSolos ==
    /\ pc = "solos"
    /\ final_rows' = final_rows \o SoloRows(CurDate, CurLoc, solos, interviewers)
    /\ IF interviewers = <<>>
       THEN /\ gi' = gi + 1
            /\ pc' = "loop"
       ELSE /\ pc' = "lubbock"
            /\ UNCHANGED gi
    /\ UNCHANGED <<fvars, gvars, roster, private_names, staffing, interviewers, lpas, psychs,
                   solos, queue, used_psych, violations>>

\* lines 168-202: the Lubbock rules for Gaston
LubbockRule ==
    /\ pc = "lubbock"
    /\ IF Lower(Strip(Str(CurLoc))) # "lubbock"
       THEN /\ pc' = "eberle"
            /\ UNCHANGED <<interviewers, lpas, psychs, final_rows, violations>>
       ELSE IF GastonRaises(interviewers)
       THEN /\ pc' = "raised"
            /\ UNCHANGED <<interviewers, lpas, psychs, final_rows, violations>>
       ELSE LET gaston == FirstGaston(interviewers)
                tester ==
                    IF gaston = "" THEN ""
                    ELSE IF DayName(CurDate) = "Tuesday" THEN KMatch(psychs)
                    ELSE IF InList("Maura Brown", lpas) THEN "Maura Brown"
                    ELSE IF InList("Tara Stevens", lpas) THEN "Tara Stevens"
                    ELSE ""
                tuesday == DayName(CurDate) = "Tuesday"
            IN  /\ pc' = "eberle"
                /\ IF gaston = ""
                   THEN UNCHANGED <<interviewers, lpas, psychs, final_rows, violations>>
                   ELSE IF tester # ""
                   THEN /\ final_rows' = Append(final_rows,
                              PairRow(CurDate, CurLoc, gaston, tester,
                                      IF tuesday THEN NoteTuesday
                                      ELSE IF tester = "Maura Brown" THEN NoteMaura
                                      ELSE NoteFixed,
                                      tuesday))
                        /\ psychs' = IF tuesday THEN ListRemove(psychs, tester) ELSE psychs
                        /\ lpas' = IF tuesday THEN lpas ELSE ListRemove(lpas, tester)
                        /\ interviewers' = ListRemove(interviewers, gaston)
                        /\ UNCHANGED violations
                   ELSE /\ violations' = Append(violations,
                              Violation(CurDate, CurLoc,
                                        IF tuesday THEN IssueLubbockTuesday
                                        ELSE IssueLubbockMonWed))
                        /\ UNCHANGED <<interviewers, lpas, psychs, final_rows>>
    /\ UNCHANGED <<fvars, gvars, roster, private_names, staffing, gi, solos, queue, used_psych>>

\* lines 204-239: the dual-tester rule, then the start of general pairing
EberleRule ==
    /\ pc = "eberle"
    /\ IF InList("Amanda Eberle", interviewers)
       THEN LET a == EberleAssign(lpas)
            IN  /\ lpas' = a.lpas
                /\ final_rows' = final_rows \o
                       [i \in 1..Len(a.assigned) |->
                            PairRow(CurDate, CurLoc, "Amanda Eberle", a.assigned[i],
                                    NoteEberle, FALSE)]
                /\ interviewers' = ListRemove(interviewers, "Amanda Eberle")
                /\ queue' = ListRemove(interviewers, "Amanda Eberle")
                /\ violations' = IF Len(a.assigned) < 2
                                 THEN Append(violations,
                                             Violation(CurDate, CurLoc,
                                                       IssueEberle(2 - Len(a.assigned))))
                                 ELSE violations
       ELSE /\ queue' = interviewers
            /\ UNCHANGED <<interviewers, lpas, final_rows, violations>>
    /\ used_psych' = FALSE
    /\ pc' = "general"
    /\ UNCHANGED <<fvars, gvars, roster, private_names, staffing, gi, psychs, solos>>

\* lines 240-266: one iteration of the general pairing loop
GeneralStep ==
    /\ pc = "general"
    /\ queue # <<>>
    /\ LET interviewer == Head(queue)
           c == GeneralChoice(interviewer, CurLoc, lpas, psychs, used_psych, private_names)
       IN  /\ lpas' = c.lpas
           /\ psychs' = c.psychs
           /\ used_psych' = c.used
           /\ IF c.paired # ""
              THEN /\ final_rows' = Append(final_rows,
                         PairRow(CurDate, CurLoc, interviewer, c.paired, c.note, c.psych_pair))
                   /\ interviewers' = ListRemove(interviewers, interviewer)
                   /\ UNCHANGED violations
              ELSE /\ violations' = violations \o
                         UnpairedViolations(CurDate, CurLoc, interviewer)
                   /\ UNCHANGED <<final_rows, interviewers>>
    /\ queue' = Tail(queue)
    /\ UNCHANGED <<fvars, gvars, roster, private_names, pc, staffing, gi, solos>>

\* the general loop is exhausted: on to the next group
EndGroup ==
    /\ pc = "general"
    /\ queue = <<>>
    /\ gi' = gi + 1
    /\ pc' = "loop"
    /\ UNCHANGED <<fvars, gvars, roster, private_names, staffing, interviewers, lpas, psychs,
                   solos, queue, used_psych, final_rows, violations>>

\* line 268
Return ==
    /\ pc = "loop"
    /\ gi > Len(staffing)
    /\ pc' = "done"
    /\ UNCHANGED <<fvars, gvars, roster, private_names, staffing, gi, interviewers, lpas, psychs,
                   solos, queue, used_psych, final_rows, violations>>

Next ==
    \/ BuildStaffing
    \/ BeginGroup
    \/ EmitSolos
    \/ LubbockRule
    \/ EberleRule
    \/ GeneralStep
    \/ EndGroup
    \/ Return

-----------------------------------------------------------------------------
(* Rosters. *)

MON == "2025-11-03"
TUE == "2025-11-04"

\* one Lubbock day and one Houston day: Gaston, Amanda Eberle, an ordinary
\* interviewer, LPAs, a solo and a row without a name
RowsMain ==
    { Row("Lubbock", "Interviewer", "Gaston Rougeaux-Burnes", MON),
      Row("Lubbock", "Interviewer", "Amanda Eberle", MON),
      Row("Lubbock", "Interviewer", "Jane Doe", MON),
      Row("Lubbock", "Interviewer", NaN, MON),
      Row("Lubbock", "LPA", "Maura Brown", MON),
      Row("Lubbock", "LPA", "Ann Lee", MON),
      Row("Lubbock", "Solo", "Sam Solo", MON),
      Row("Houston", "Interviewer", "Jane Doe", MON),
      Row("Houston", "LPA", "Ann Lee", MON),
      Row("Houston", "Solo", "Sam Solo", "not a date") }

Init == InitWith(RowsMain, {DEFAULT_PRIVATE})

\* a Tuesday at SA and at Lubbock: interviewers, psychometricians, an LPA
RowsSA ==
    { Row(SA, "Interviewer", "Jane Doe", TUE),
      Row(SA, "Interviewer", "Lakaii Jones", TUE),
      Row(SA, "Psychometrician", "Pat Kim", TUE),
      Row(SA, "Psychometrician", "Kaelyn Sheen", TUE),
      Row(SA, "LPA", "Virginia Parker", TUE),
      Row("Lubbock", "Interviewer", "Gaston Rougeaux-Burnes", TUE),
      Row("Lubbock", "Interviewer", "Jane Doe", TUE),
      Row("Lubbock", "Psychometrician", "Kaelyn Sheen", TUE),
      Row("Lubbock", "Psychometrician", "Pat Kim", TUE) }

InitSA == InitWith(RowsSA, {DEFAULT_PRIVATE})

SpecSA == InitSA /\ [][Next]_vars

\* solos under several labels and names, with and without interviewers in
\* their group, dated and undated
RowsSolo ==
    { Row("Houston", "Solo", "Sam Solo", MON),
      Row("Houston", "SOLO Provider", "Amanda Eberle", MON),
      Row("Houston", "Interviewer", "Jane Doe", MON),
      Row("Houston", "LPA", "Ann Lee", MON),
      Row("Houston", "Solo", "Sam Solo", "not a date"),
      Row("Lubbock", "Solo", "Gaston Rougeaux-Burnes", MON),
      Row("Lubbock", "Solo", "Sam Solo", MON),
      Row("Lubbock", "Interviewer", "Jane Doe", MON) }

InitSolo == InitWith(RowsSolo, {DEFAULT_PRIVATE})

SpecSolo == InitSolo /\ [][Next]_vars

\* Bobby Perez under every label, at SA and at Houston, next to interviewers
\* (one of them prefers him) and another LPA
RowsBobby ==
    { Row("Houston", "Interviewer", "Bobby Perez", MON),
      Row("Houston", "LPA", "Bobby Perez", MON),
      Row("Houston", "Solo", "Bobby Perez", MON),
      Row("Houston", "Interviewer", "Jane Doe", MON),
      Row("Houston", "Interviewer", "Shivani Bhakta", MON),
      Row("Houston", "LPA", "Ann Lee", MON),
      Row("Houston", "Interviewer", "Bobby Perez", "not a date"),
      Row(SA, "Interviewer", "Bobby Perez", MON),
      Row(SA, "Interviewer", "Jane Doe", MON) }

InitBobby == InitWith(RowsBobby, {DEFAULT_PRIVATE})

SpecBobby == InitBobby /\ [][Next]_vars

Spec == Init /\ [][Next]_vars

-----------------------------------------------------------------------------
(* What the outputs say about one group. *)

\* the groups whose processing has ended (skipped groups included)
Finished == 1..(IF gi - 1 <= Len(staffing) THEN gi - 1 ELSE Len(staffing))

\* the finished groups with a date: the ones that were processed
Processed == {g \in Finished : ~IsNa(staffing[g].key.date)}

\* the pairing records of group g, solos left out
PairsOf(g) ==
    SelectSeq(final_rows, LAMBDA r : /\ r.Date = staffing[g].key.date
                                     /\ r.Location = staffing[g].key.loc
                                     /\ r.Tester # "(SOLO)")

\* the solo records of group g
SoloRecordsOf(g) ==
    SelectSeq(final_rows, LAMBDA r : /\ r.Date = staffing[g].key.date
                                     /\ r.Location = staffing[g].key.loc
                                     /\ r.Tester = "(SOLO)")

\* the violations of group g
ViolationsOf(g) ==
    SelectSeq(violations, LAMBDA v : /\ v.Date = to_mmddyyyy(staffing[g].key.date)
                                     /\ v.Location = staffing[g].key.loc)

\* the names group g's entries carry under a role
NamesOf(g, role) ==
    {staffing[g].entries[i].n : i \in {j \in 1..Len(staffing[g].entries) :
                                         staffing[g].entries[j].r = role}}

\* how many entries of group g carry name n under a role
EntryCount(g, role, n) ==
    Cardinality({i \in 1..Len(staffing[g].entries) :
                    staffing[g].entries[i].r = role /\ staffing[g].entries[i].n = n})

\* how many pairing records of group g have n as interviewer
PairCount(g, n) == Len(SelectSeq(PairsOf(g), LAMBDA r : r.Interviewer = n))

\* how many of them were made by the dual-tester rule
DualCount(g) == Len(SelectSeq(PairsOf(g), LAMBDA r : r.Notes = NoteEberle))

\* how many violations of group g carry an issue
IssueCount(g, issue) == Len(SelectSeq(ViolationsOf(g), LAMBDA v : v.Issue = issue))

\* n is flagged as unpaired in group g: no tester, or the dual-tester shortfall
Flagged(g, n) ==
    \/ IssueCount(g, <<"No tester available for ", Str(n)>>) > 0
    \/ /\ n = "Amanda Eberle"
       /\ \E k \in 1..2 : IssueCount(g, IssueEberle(k)) > 0

\* the interviewer names of group g occur once each
DistinctInterviewers(g) ==
    \A n \in NamesOf(g, "interviewer") : EntryCount(g, "interviewer", n) = 1

-----------------------------------------------------------------------------
(* C1 *)

\* C1 as claimed: in every processed group every interviewer is either the
\* interviewer of a pairing record or flagged as unpaired, never both and
\* never neither.
C1_PairedXorFlagged ==
    \A g \in Processed :
        DistinctInterviewers(g) =>
            \A n \in NamesOf(g, "interviewer") :
                (PairCount(g, n) > 0) # Flagged(g, n)

\* C1 amended: in every processed group every interviewer record is accounted
\* for.  An interviewer other than Amanda Eberle has, per record, exactly one
\* pairing record or one "No tester available" violation.  Amanda Eberle's
\* first record has k <= 2 dual-tester records and the shortfall violation
\* "short 2-k" exactly when k < 2 (so both a record and a violation when
\* k = 1); each further record of hers is accounted for like any interviewer.
C1_Accounted ==
    \A g \in Processed :
        \A n \in NamesOf(g, "interviewer") :
            LET noTester == IssueCount(g, <<"No tester available for ", Str(n)>>)
                records  == EntryCount(g, "interviewer", n)
            IN  IF n # "Amanda Eberle"
                THEN PairCount(g, n) + noTester = records
                ELSE LET k == DualCount(g)
                     IN  /\ k <= 2
                         /\ \A j \in 1..2 :
                                IssueCount(g, IssueEberle(j)) = IF j = 2 - k THEN 1 ELSE 0
                         /\ (PairCount(g, n) - k) + noTester = records - 1

\* a processed group where Amanda Eberle got one tester and the shortfall
\* violation, and another interviewer was flagged for want of a tester
C1_Witness ==
    \E g \in Processed :
        /\ DualCount(g) = 1
        /\ IssueCount(g, IssueEberle(1)) = 1
        /\ \E n \in NamesOf(g, "interviewer") \ {"Amanda Eberle"} :
               PairCount(g, n) = 0 /\ Flagged(g, n)

-----------------------------------------------------------------------------
(* C2, C3 *)

\* the group the engine is inside of, if any
InGroup == pc \in {"solos", "lubbock", "eberle", "general"}

\* the records of group g whose tester came from the psychometrician pool
PsychPairsOf(g) == SelectSeq(PairsOf(g), LAMBDA r : r.PsychometricianPair)

\* the records of group g made by the psychometrician branch of general allocation
GeneralPsychPairsOf(g) == SelectSeq(PairsOf(g), LAMBDA r : r.Notes = NotePsych)

\* every psychometrician entry of the current group is in the pool or is the
\* tester of a record flagged PsychometricianPair
PsychPoolAccounted ==
    InGroup =>
        Len(psychs) + Len(PsychPairsOf(gi))
            = Cardinality({i \in 1..Len(Cur.entries) : Cur.entries[i].r = "psychometrician"})

\* C2: within one group general allocation pairs at most one psychometrician,
\* and used_psych is set exactly when it has; no later interviewer of the
\* group gets one.
C2_OnePsychPerGroup ==
    /\ \A g \in 1..Len(staffing) : Len(GeneralPsychPairsOf(g)) <= 1
    /\ pc = "general" => (used_psych <=> Len(GeneralPsychPairsOf(gi)) = 1)
    /\ PsychPoolAccounted

\* the cap was used, a psychometrician is still in the pool, and a later
\* interviewer of the group went without a tester
C2_Witness ==
    /\ pc = "general"
    /\ queue = <<>>
    /\ used_psych
    /\ psychs # <<>>
    /\ \E n \in NamesOf(gi, "interviewer") : IssueCount(gi, IssueNoTester(n)) > 0

\* C3 as claimed: outside SA no pairing record has a tester from the
\* psychometrician pool.
C3_PsychOnlyAtSA ==
    \A i \in 1..Len(final_rows) :
        final_rows[i].PsychometricianPair => final_rows[i].Location = SA

\* C3 amended: a pairing record has a tester from the psychometrician pool
\* only at SA, or at Lubbock on a Tuesday as the fixed pairing of Gaston with
\* Kaelyn Sheen or Kaelyn Scheen.
C3_PsychAtSAOrLubbockTuesday ==
    /\ PsychPoolAccounted
    /\ \A i \in 1..Len(final_rows) :
          LET r == final_rows[i]
          IN  r.PsychometricianPair =>
                \/ r.Location = SA
                \/ /\ Lower(r.Location) = "lubbock"
                   /\ DayName(r.Date) = "Tuesday"
                   /\ Contains(r.Interviewer, "Gaston")
                   /\ r.Tester \in {"Kaelyn Sheen", "Kaelyn Scheen"}
                   /\ r.Notes = NoteTuesday

\* at Lubbock Gaston got Kaelyn by the Tuesday rule, and another interviewer
\* went without a tester although a psychometrician was left in the pool
C3_Witness ==
    /\ pc = "general"
    /\ queue = <<>>
    /\ CurLoc = "Lubbock"
    /\ psychs # <<>>
    /\ IssueCount(gi, IssueNoTester("Jane Doe")) = 1
    /\ \E i \in 1..Len(PsychPairsOf(gi)) : PsychPairsOf(gi)[i].Notes = NoteTuesday

-----------------------------------------------------------------------------
(* C4 *)

\* a violation of group g that is about the provider named n
Names(v, n) ==
    \/ v.Issue = <<"No tester available for ", Str(n)>>
    \/ n = "Amanda Eberle" /\ \E k \in 1..2 : v.Issue = IssueEberle(k)
    \/ n = "Bobby Perez" /\ v.Issue = IssueBobby
    \/ IsText(n) /\ Contains(n, "Gaston")
         /\ v.Issue \in {IssueLubbockTuesday, IssueLubbockMonWed}

\* the solo names of group g's entries, in order
SoloNamesOf(g) == Pool(staffing[g].entries, "solo")

\* every group that has got past its solo step (a group without interviewers
\* ends there) has one "(SOLO)" record per solo entry, in order, and no
\* violation about a provider who is in the group only as a solo
C4_SoloRecords ==
    \A g \in 1..Len(staffing) :
        (~IsNa(staffing[g].key.date) /\ (g < gi \/ (g = gi /\ pc \in {"lubbock", "eberle", "general", "raised"})))
        =>  /\ [i \in 1..Len(SoloRecordsOf(g)) |-> SoloRecordsOf(g)[i].Interviewer] = SoloNamesOf(g)
            /\ \A n \in NamesOf(g, "solo") \ NamesOf(g, "interviewer") :
                   \A i \in 1..Len(ViolationsOf(g)) : ~Names(ViolationsOf(g)[i], n)

\* the solo step appends records and touches neither the violations nor a pool
C4_SoloStepConsumesNothing ==
    pc = "solos" =>
        /\ violations' = violations
        /\ interviewers' = interviewers
        /\ lpas' = lpas
        /\ psychs' = psychs

\* C4: every solo record of a dated group yields exactly one "(SOLO)" record,
\* groups without interviewers included; no violation is about a solo; the
\* solo step removes nothing from the pools.
C4_Solos == [](C4_SoloRecords) /\ [][C4_SoloStepConsumesNothing]_vars

\* a group without interviewers, with a tester, has been processed and its
\* two solos are on record
C4_Witness ==
    \E g \in Processed :
        /\ NamesOf(g, "interviewer") = {}
        /\ NamesOf(g, "lpa") # {}
        /\ Len(SoloRecordsOf(g)) = 2

-----------------------------------------------------------------------------
(* C5, C6 *)

\* the roster rows of group g whose Team Member is Bobby Perez
BobbyRowsOf(g) ==
    {i \in 1..Len(roster) : /\ GroupKey(roster[i]) = staffing[g].key
                            /\ roster[i].TeamMember = "Bobby Perez"}

\* the groups that were split into pools: dated, and begun
Begun == {g \in 1..Len(staffing) :
            /\ ~IsNa(staffing[g].key.date)
            /\ (g < gi \/ (g = gi /\ pc \in {"solos", "lubbock", "eberle", "general", "raised"}))}

\* C5: whatever his Area label, Bobby Perez is in the lpa pool of every group
\* he has a row in (once per row), never in the interviewer pool, and never
\* the Interviewer of a pairing record.
C5_BobbyIsLpa ==
    /\ ~InList("Bobby Perez", interviewers)
    /\ ~InList("Bobby Perez", queue)
    /\ ~InList("Bobby Perez", solos)
    /\ \A i \in 1..Len(final_rows) : final_rows[i].Interviewer # "Bobby Perez"
    /\ pc = "solos" => Count("Bobby Perez", lpas) = Cardinality(BobbyRowsOf(gi))

\* a group with Bobby Perez labelled Interviewer and labelled Solo has been
\* split: he is twice in the lpa pool
C5_Witness ==
    /\ pc = "solos"
    /\ \E i \in BobbyRowsOf(gi) : roster[i].Area = "Interviewer"
    /\ \E i \in BobbyRowsOf(gi) : roster[i].Area = "Solo"
    /\ Count("Bobby Perez", lpas) = 2

\* every begun group outside SA with a Bobby Perez row has the advisory
\* violation, once; he is in its lpa pool, once per row
C6_Flagged ==
    /\ \A g \in Begun :
          (staffing[g].key.loc # SA /\ BobbyRowsOf(g) # {})
              => IssueCount(g, IssueBobby) = 1
    /\ (pc = "solos" /\ CurLoc # SA)
          => Count("Bobby Perez", lpas) = Cardinality(BobbyRowsOf(gi))

\* outside SA general allocation hands Bobby Perez out as it would any LPA:
\* to the interviewer who prefers him, else when he heads the pool
C6_PairedLikeAnyLpa ==
    (pc = "general" /\ queue # <<>> /\ CurLoc # SA /\ InList("Bobby Perez", lpas))
    =>  LET interviewer == Head(queue)
            pref == PAIRING_PREFERENCES_get(interviewer)
        IN  /\ pref = "Bobby Perez"
                => /\ final_rows' = Append(final_rows,
                          PairRow(CurDate, CurLoc, interviewer, "Bobby Perez",
                                  NotePreference, FALSE))
                   /\ Count("Bobby Perez", lpas') = Count("Bobby Perez", lpas) - 1
            /\ (Head(lpas) = "Bobby Perez" /\ ~(pref # "" /\ InList(pref, lpas)))
                => /\ final_rows' = Append(final_rows,
                          PairRow(CurDate, CurLoc, interviewer, "Bobby Perez",
                                  NoteStandard, FALSE))
                   /\ lpas' = Tail(lpas)

\* C6: the violation about Bobby Perez outside SA is emitted and is advisory:
\* he stays in the lpa pool and is paired by the rules every LPA is paired by.
C6_Advisory == [](C6_Flagged) /\ [][C6_PairedLikeAnyLpa]_vars

\* outside SA a group is flagged for Bobby Perez, who was labelled
\* Interviewer, and he is the tester of a standard pairing there
C6_Witness ==
    \E g \in Processed :
        /\ staffing[g].key.loc # SA
        /\ IssueCount(g, IssueBobby) = 1
        /\ \E i \in BobbyRowsOf(g) : roster[i].Area = "Interviewer"
        /\ \E i \in 1..Len(PairsOf(g)) :
               PairsOf(g)[i].Tester = "Bobby Perez" /\ PairsOf(g)[i].Notes = NoteStandard

-----------------------------------------------------------------------------
(* C7, C9, C10 *)

\* the issue the specification asks for, for a tester left in a pool
IssueTesterNotAssigned(n) == <<"Tester not assigned: ", Str(n)>>

\* the group that has just ended was processed: the pools are what it left
JustProcessed == pc = "loop" /\ (gi - 1) \in Processed

\* C7: when a group has been processed, each name left in the lpa or
\* psychometrician pool has a "Tester not assigned" record.
C7_LeftoverTestersReported ==
    JustProcessed =>
        \A n \in {lpas[i] : i \in 1..Len(lpas)} \cup {psychs[i] : i \in 1..Len(psychs)} :
            IssueCount(gi - 1, IssueTesterNotAssigned(n)) >= 1

\* C9: a row without a site or without a provider name leaves no trace: no
\* pairing record and no violation carries a missing name or a missing site.
C9_SkippedRowsLeaveNoTrace ==
    /\ \A i \in 1..Len(final_rows) :
          /\ IsText(final_rows[i].Interviewer)
          /\ IsText(final_rows[i].Tester)
          /\ final_rows[i].Location # Str(NaN)
    /\ \A i \in 1..Len(violations) :
          /\ violations[i].Location # Str(NaN)
          /\ violations[i].Issue # IssueNoTester(NaN)

\* C10: once group processing has begun the engine never raises.
C10_NeverRaises == pc # "raised"

-----------------------------------------------------------------------------
(* app.py: the cells of a Deputy table.  A date cell is a sequence of       *)
(* characters, so that _to_iso_date can be computed as the code computes it. *)

\* a missing date cell
NaNChars == <<NaN>>

\* str(v) of a date cell
StrChars(v) == IF v = NaNChars THEN <<"n", "a", "n">> ELSE v

\* s.strip() of a sequence of characters
RECURSIVE LStripChars(_)
LStripChars(s) == IF s # <<>> /\ Head(s) = " " THEN LStripChars(Tail(s)) ELSE s

RECURSIVE RStripChars(_)
RStripChars(s) ==
    IF s # <<>> /\ s[Len(s)] = " " THEN RStripChars(SubSeq(s, 1, Len(s) - 1)) ELSE s

StripChars(s) == RStripChars(LStripChars(s))

\* s[:n]
Prefix(s, n) == SubSeq(s, 1, IF Len(s) < n THEN Len(s) ELSE n)

\* s.split(sep) for a one-character sep
RECURSIVE SplitChars(_, _, _)
SplitChars(s, sep, cur) ==
    IF s = <<>> THEN <<cur>>
    ELSE IF Head(s) = sep THEN <<cur>> \o SplitChars(Tail(s), sep, <<>>)
    ELSE SplitChars(Tail(s), sep, Append(cur, Head(s)))

\* s.split()[0] for a stripped, non-empty s: the text before the first blank
RECURSIVE FirstToken(_)
FirstToken(s) ==
    IF s = <<>> \/ Head(s) = " " THEN <<>> ELSE <<Head(s)>> \o FirstToken(Tail(s))

\* p.zfill(2)
ZFill2(p) == IF Len(p) = 0 THEN <<"0", "0">> ELSE IF Len(p) = 1 THEN <<"0">> \o p ELSE p

\* pd.to_datetime(s, errors="coerce").strftime("%Y-%m-%d") on the texts that
\* reach the fallback: <<>> stands for NaT, whose strftime raises
PandasIsoDate(s) ==
    IF s = <<"2", "0", "2", "5", "-", "1", "1", "-", "3">>
    THEN <<"2", "0", "2", "5", "-", "1", "1", "-", "0", "3">>
    ELSE <<>>

_to_iso_date(val) ==
    LET s == StripChars(val)
    IN  IF Len(s) >= 10 /\ s[5] = "-" /\ s[8] = "-" THEN Prefix(s, 10)
        ELSE LET parts == IF InList("/", s) THEN SplitChars(FirstToken(s), "/", <<>>)
                          ELSE <<>>
             IN  IF Len(parts) >= 3
                 THEN LET yyyy == IF Len(parts[3]) = 2 THEN <<"2", "0">> \o parts[3]
                                  ELSE parts[3]
                      IN  yyyy \o <<"-">> \o ZFill2(parts[1]) \o <<"-">> \o ZFill2(parts[2])
                 ELSE IF PandasIsoDate(s) # <<>> THEN PandasIsoDate(s)
                 ELSE Prefix(s, 10)

-----------------------------------------------------------------------------
(* app.py: the Deputy auto-mapper. *)

\* norm_col, then the dictionary low of normalize_row_deputy: the cells of a
\* row under the lower-cased column names
Low(row) ==
    [c \in {"location", "area", "employee", "start date"} |->
        CASE c = "location"   -> row.Location
          [] c = "area"       -> row.Area
          [] c = "employee"   -> row.Employee
          [] c = "start date" -> row.StartDate]

ROSTER_ALIASES ==
    [site     |-> <<"site", "location", "work location", "venue", "clinic", "office">>,
     date     |-> <<"date", "shift date", "start date", "start", "day", "timesheet date">>,
     modality |-> <<"modality", "type", "category", "mode">>,
     role     |-> <<"role", "area", "position", "duty", "job", "title">>,
     provider |-> <<"provider", "employee", "employee name", "name", "staff">>,
     language |-> <<"language", "lang">>]

\* _pick, for text cells
RECURSIVE _pick(_, _)
_pick(low, aliases) ==
    IF aliases = <<>> THEN ""
    ELSE IF Head(aliases) \in DOMAIN low /\ Strip(Str(low[Head(aliases)])) # ""
    THEN Strip(Str(low[Head(aliases)]))
    ELSE _pick(low, Tail(aliases))

\* _pick, for the date cell
RECURSIVE _pick_date(_, _)
_pick_date(low, aliases) ==
    IF aliases = <<>> THEN <<>>
    ELSE IF Head(aliases) \in DOMAIN low /\ StripChars(StrChars(low[Head(aliases)])) # <<>>
    THEN StripChars(StrChars(low[Head(aliases)]))
    ELSE _pick_date(low, Tail(aliases))

\* lines 93-101: the role, from the lower-cased label
DeputyRole(role_guess) ==
    IF role_guess \in {"interviewer", "tester", "solo"} THEN role_guess
    ELSE IF \E k \in {"tester", "lpa", "psychometric"} : Contains(role_guess, k) THEN "tester"
    ELSE IF \E k \in {"solo", "independent"} : Contains(role_guess, k) THEN "solo"
    ELSE "interviewer"

normalize_row_deputy(row) ==
    LET low      == Low(row)
        site     == _pick(low, ROSTER_ALIASES.site)
        picked   == _pick(low, ROSTER_ALIASES.modality)
        language == _pick(low, ROSTER_ALIASES.language)
    IN  [site     |-> site,
         date     |-> _to_iso_date(_pick_date(low, ROSTER_ALIASES.date)),
         modality |-> IF picked # "" THEN picked
                      ELSE IF Contains(Lower(site), "tele") THEN "Telehealth" ELSE "Live",
         role     |-> DeputyRole(Lower(_pick(low, ROSTER_ALIASES.role))),
         provider |-> _pick(low, ROSTER_ALIASES.provider),
         language |-> Lower(IF language # "" THEN language ELSE "English")]

\* normalize_roster: the rows with every required field
normalize_roster(table) ==
    SelectSeq([i \in 1..Len(table) |-> normalize_row_deputy(table[i])],
              LAMBDA m : /\ m.site # "" /\ m.date # <<>> /\ m.modality # ""
                         /\ m.role # "" /\ m.provider # "")

-----------------------------------------------------------------------------
(* app.py: language and preferences. *)

SPANISH_SET ==
    {"cintia martinez", "liliana pizana", "emma thomae", "ben aguilar", "cesar villarreal",
     "teresa castano", "dr. alvarez-sanders", "alvarez-sanders", "belinda castillo",
     "noemi martinez"}

get_lang(name) ==
    IF name = "" THEN "english"
    ELSE IF \E tok \in SPANISH_SET : Contains(Lower(name), tok) THEN "spanish"
    ELSE "english"

\* a scorer that takes only two Spanish-speaking names for a language match
preferred_score_spanishOnly(interviewer, tester) ==
    LET i == Lower(interviewer)
        t == Lower(tester)
    IN  IF Contains(i, "lakaii jones") /\ Contains(t, "virginia parker") THEN 5
        ELSE IF Contains(i, "lyn mcdonald") /\ Contains(t, "ed howarth") THEN 5
        ELSE IF Contains(i, "liliana pizana") /\ Contains(t, "emma thomae") THEN 4
        ELSE IF get_lang(i) = "spanish" /\ get_lang(t) = "spanish" THEN 2
        ELSE 0

preferred_score(interviewer, tester) ==
    LET i == Lower(interviewer)
        t == Lower(tester)
    IN  IF Contains(i, "lakaii jones") /\ Contains(t, "virginia parker") THEN 5
        ELSE IF Contains(i, "lyn mcdonald") /\ Contains(t, "ed howarth") THEN 5
        ELSE IF Contains(i, "liliana pizana") /\ Contains(t, "emma thomae") THEN 4
        ELSE IF get_lang(i) = get_lang(t) THEN 2
        ELSE 0

title_abbrev(site) ==
    IF site = "" THEN site
    ELSE IF Contains(Lower(site), "san antonio") \/ Lower(site) = "sa" THEN "SA"
    ELSE site

-----------------------------------------------------------------------------
(* app.py: grouping.  groupby sorts the keys (site, date, modality). *)

\* the texts of the universe, and the characters of its dates, by code point
TextOrder == <<"Houston", "Live", "San Antonio Live", "Telehealth", "Telemedicine", "nan">>

CharOrder ==
    <<" ", "-", "/", "0", "1", "2", "3", "4", "5", "6", "7", "8", "9", "a", "n", "o", "s">>

TextLess(a, b) == IndexOf(a, TextOrder) < IndexOf(b, TextOrder)

RECURSIVE CharsLess(_, _)
CharsLess(a, b) ==
    IF b = <<>> THEN FALSE
    ELSE IF a = <<>> THEN TRUE
    ELSE IF Head(a) # Head(b) THEN IndexOf(Head(a), CharOrder) < IndexOf(Head(b), CharOrder)
    ELSE CharsLess(Tail(a), Tail(b))

GenKey(m) == [site |-> m.site, date |-> m.date, modality |-> m.modality]

KeyLess(a, b) ==
    \/ TextLess(a.site, b.site)
    \/ a.site = b.site /\ CharsLess(a.date, b.date)
    \/ a.site = b.site /\ a.date = b.date /\ TextLess(a.modality, b.modality)

\* the keys of a frame, each once, in sorted order
RECURSIVE SortKeys(_)
SortKeys(ks) ==
    IF ks = {} THEN <<>>
    ELSE LET k == CHOOSE x \in ks : \A y \in ks \ {x} : KeyLess(x, y)
         IN  <<k>> \o SortKeys(ks \ {k})

GroupedKeys(df) == SortKeys({GenKey(df[i]) : i \in 1..Len(df)})

\* lines 151-153: the providers of a group with one role, in row order
Providers(df, key, role) ==
    LET rows == SelectSeq(df, LAMBDA m : GenKey(m) = key /\ m.role = role)
    IN  [i \in 1..Len(rows) |-> rows[i].provider]

-----------------------------------------------------------------------------
(* app.py: the records generate_pairings emits. *)

Event(subject, date, desc, site) ==
    [Subject |-> subject, StartDate |-> date, Description |-> desc, Location |-> site]

PairEvent(key, i_name, best_t, best_score) ==
    Event(<<title_abbrev(key.site), " | Pairing: ", i_name, " + ", best_t>>, key.date,
          <<"Dyad pairing for ", key.date, " ", key.modality, ".",
            IF best_score >= 4 THEN " Preference satisfied."
            ELSE IF best_score = 2 THEN " Language-matched." ELSE "">>,
          key.site)

InterviewerGapEvent(key, i_name) ==
    Event(<<title_abbrev(key.site), " | GAP: ", i_name, " (no tester)">>, key.date,
          <<"Unpaired interviewer. Needs tester for ", key.modality, ".">>, key.site)

TesterGapEvent(key, t_name) ==
    Event(<<title_abbrev(key.site), " | GAP: ", t_name, " (tester unassigned)">>, key.date,
          <<"Tester not assigned.">>, key.site)

SoloEvent(key, s_name) ==
    Event(<<title_abbrev(key.site), " | SOLO: ", s_name>>, key.date,
          <<"Solo provider working ", key.modality, ".">>, key.site)

PreferenceNotMet(key, i_name, best_t) ==
    [site |-> key.site, date |-> key.date, modality |-> key.modality,
     type |-> "Preference Not Met", interviewer |-> i_name, tester |-> best_t]

UnpairedInterviewer(key, i_name) ==
    [site |-> key.site, date |-> key.date, modality |-> key.modality,
     type |-> "Unpaired Interviewer", interviewer |-> i_name]

InterviewerGap(key, i_name) ==
    [site |-> key.site, date |-> key.date, modality |-> key.modality, interviewer |-> i_name]

TesterGap(key, t_name) ==
    [site |-> key.site, date |-> key.date, modality |-> key.modality, tester |-> t_name]

-----------------------------------------------------------------------------
(* app.py: generate_pairings.  available_testers is a set of str: the order  *)
(* in which it is iterated follows the string hashes of the running process, *)
(* which g_hash stands for: the tester names in iteration order.             *)

MaxGenRows == 3

\* list(available_testers), and the order of `for t_name in available_testers`
SetOrder(avail, hash) == SelectSeq(hash, LAMBDA n : n \in avail)

\* lines 158-164: the scan for the best tester, a strictly greater score wins
RECURSIVE BestScan(_, _, _)
BestScan(i_name, order, best) ==
    IF order = <<>> THEN best
    ELSE LET score == preferred_score(i_name, Head(order))
         IN  BestScan(i_name, Tail(order),
                      IF score > best.score THEN [t |-> Head(order), score |-> score]
                      ELSE best)

\* line 175
WantsPreference(i_name) ==
    \/ Contains(Lower(i_name), "lakaii jones")
    \/ Contains(Lower(i_name), "lyn mcdonald")
    \/ get_lang(i_name) = "spanish"

\* lines 157-184: the interviewers of a group, one after the other
RECURSIVE PairInterviewers(_, _, _, _)
PairInterviewers(key, ivs, hash, out) ==
    IF ivs = <<>> THEN out
    ELSE LET i_name == Head(ivs)
             best   == BestScan(i_name, SetOrder(out.avail, hash), [t |-> "", score |-> -1])
         IN  IF best.t # ""
             THEN PairInterviewers(key, Tail(ivs), hash,
                    [avail      |-> out.avail \ {best.t},
                     events     |-> Append(out.events, PairEvent(key, i_name, best.t, best.score)),
                     violations |-> IF best.score < 4 /\ WantsPreference(i_name)
                                    THEN Append(out.violations,
                                                PreferenceNotMet(key, i_name, best.t))
                                    ELSE out.violations,
                     gaps       |-> out.gaps])
             ELSE PairInterviewers(key, Tail(ivs), hash,
                    [avail      |-> out.avail,
                     events     |-> Append(out.events, InterviewerGapEvent(key, i_name)),
                     violations |-> Append(out.violations, UnpairedInterviewer(key, i_name)),
                     gaps       |-> Append(out.gaps, InterviewerGap(key, i_name))])

\* lines 150-199: one group
GroupOutput(df, key, hash) ==
    LET testers  == Providers(df, key, "tester")
        paired   == PairInterviewers(key, Providers(df, key, "interviewer"), hash,
                        [avail      |-> {testers[i] : i \in 1..Len(testers)},
                         events     |-> <<>>, violations |-> <<>>, gaps |-> <<>>])
        leftover == SetOrder(paired.avail, hash)
        solo     == Providers(df, key, "solo")
    IN  [events     |-> paired.events
                        \o [i \in 1..Len(leftover) |-> TesterGapEvent(key, leftover[i])]
                        \o [i \in 1..Len(solo) |-> SoloEvent(key, solo[i])],
         violations |-> paired.violations,
         gaps       |-> paired.gaps
                        \o [i \in 1..Len(leftover) |-> TesterGap(key, leftover[i])]]

\* the tester names of a table, and the orders a process may iterate them in
TesterNames(table) ==
    LET df == normalize_roster(table)
    IN  {df[i].provider : i \in {j \in 1..Len(df) : df[j].role = "tester"}}

HashOrders(table) ==
    {h \in [1..Cardinality(TesterNames(table)) -> TesterNames(table)] :
        \A i, j \in DOMAIN h : i # j => h[i] # h[j]}

\* build_pairings_from_roster is not running
RosterIdle ==
    /\ roster = <<>>
    /\ private_names = DEFAULT_PRIVATE
    /\ pc = "idle"
    /\ staffing = <<>>
    /\ gi = 1
    /\ interviewers = <<>>
    /\ lpas = <<>>
    /\ psychs = <<>>
    /\ solos = <<>>
    /\ queue = <<>>
    /\ used_psych = FALSE
    /\ final_rows = <<>>
    /\ violations = <<>>

\* the state at the call, for tables over a set of rows
InitGenWith(rows) ==
    /\ RosterIdle
    /\ FnIdle
    /\ g_table \in SeqsUpTo(rows, MaxGenRows)
    /\ g_hash \in HashOrders(g_table)
    /\ g_pc = "start"
    /\ g_df = <<>>
    /\ g_keys = <<>>
    /\ g_gi = 1
    /\ g_events = <<>>
    /\ g_violations = <<>>
    /\ g_gaps = <<>>
    /\ g_run = 1
    /\ g_first = <<>>

\* lines 135-147
GenNormalize ==
    /\ g_pc = "start"
    /\ g_df' = normalize_roster(g_table)
    /\ g_keys' = GroupedKeys(g_df')
    /\ g_pc' = IF g_df' = <<>> THEN "raised" ELSE "loop"
    /\ UNCHANGED <<fvars, rvars, g_table, g_hash, g_gi, g_events, g_violations, g_gaps,
                   g_run, g_first>>

\* lines 150-199
GenGroup ==
    /\ g_pc = "loop"
    /\ g_gi <= Len(g_keys)
    /\ LET out == GroupOutput(g_df, g_keys[g_gi], g_hash)
       IN  /\ g_events' = g_events \o out.events
           /\ g_violations' = g_violations \o out.violations
           /\ g_gaps' = g_gaps \o out.gaps
    /\ g_gi' = g_gi + 1
    /\ UNCHANGED <<fvars, rvars, g_table, g_hash, g_pc, g_df, g_keys, g_run, g_first>>

\* line 201
GenReturn ==
    /\ g_pc = "loop"
    /\ g_gi > Len(g_keys)
    /\ g_pc' = "done"
    /\ UNCHANGED <<fvars, rvars, g_table, g_hash, g_df, g_keys, g_gi, g_events, g_violations,
                   g_gaps, g_run, g_first>>

\* the same table is given to a second run, in a process of its own
GenRerun ==
    /\ g_pc = "done"
    /\ g_run = 1
    /\ g_first' = <<g_events, g_violations, g_gaps>>
    /\ g_run' = 2
    /\ g_hash' \in HashOrders(g_table)
    /\ g_pc' = "start"
    /\ g_df' = <<>>
    /\ g_keys' = <<>>
    /\ g_gi' = 1
    /\ g_events' = <<>>
    /\ g_violations' = <<>>
    /\ g_gaps' = <<>>
    /\ UNCHANGED <<fvars, rvars, g_table>>

NextGen ==
    \/ GenNormalize
    \/ GenGroup
    \/ GenReturn
    \/ GenRerun

\* Deputy rows
DeputyRow(loc, area, employee, start) ==
    [Location |-> loc, Area |-> area, Employee |-> employee, StartDate |-> start]

D_ISO == <<"2", "0", "2", "5", "-", "1", "1", "-", "0", "3">>
D_US  == <<"1", "1", "/", "3", "/", "2", "5">>
D_BAD == <<"s", "o", "o", "n">>

RowsGen ==
    { DeputyRow("Houston", "Interviewer", "Jane Doe", D_ISO),
      DeputyRow("Houston", "Interviewer", "Lakaii Jones", D_US),
      DeputyRow("Houston", "LPA", "Ann Lee", D_ISO),
      DeputyRow("Houston", "Psychometrician", "Virginia Parker", D_ISO),
      DeputyRow("Houston", "LPA", "Noemi Martinez", D_US),
      DeputyRow("Telemedicine", "Solo", "Sam Solo", D_ISO),
      DeputyRow("San Antonio Live", "Interviewer", "Liliana Pizana", D_ISO),
      DeputyRow("San Antonio Live", "LPA", "Emma Thomae", NaNChars),
      DeputyRow(NaN, "Admin", "Jane Doe", D_ISO),
      DeputyRow("Houston", "Admin", "Pat Admin", D_ISO),
      DeputyRow("Houston", "Interviewer", NaN, D_BAD) }

InitGen == InitGenWith(RowsGen)

SpecGen == InitGen /\ [][NextGen]_vars

-----------------------------------------------------------------------------
(* C8 *)

GenFinishedTwice == g_pc = "done" /\ g_run = 2

\* C8: two runs of generate_pairings on the same table return the same events,
\* the same violations and the same gaps, each in the same order.
C8_Deterministic ==
    GenFinishedTwice => <<g_events, g_violations, g_gaps>> = g_first

-----------------------------------------------------------------------------
(* C11: preferred_score, called on its own. *)

\* the names the scorer is called with; "" is a missing name
ScoreNames ==
    {"Lakaii Jones", "LAKAII JONES", "Lyn McDonald", "Liliana Pizana", "Jane Doe",
     "Virginia Parker", "Ed Howarth", "Emma Thomae", "Dr. Emma Thomae", "Noemi Martinez",
     "Ann Lee", ""}

InitScore ==
    /\ RosterIdle
    /\ GenIdle
    /\ f_pc = "called"
    /\ f_in \in [interviewer : ScoreNames, tester : ScoreNames]
    /\ f_out = <<>>

ScoreCall ==
    /\ f_pc = "called"
    /\ f_out' = preferred_score(f_in.interviewer, f_in.tester)
    /\ f_pc' = "returned"
    /\ UNCHANGED <<rvars, gvars, f_in>>

NextScore == ScoreCall

SpecScore == InitScore /\ [][NextScore]_vars

\* what the rules say of a pair of names
NamedPair(i, t, a, b) == Contains(Lower(i), a) /\ Contains(Lower(t), b)

PreferredPair(i, t) ==
    \/ NamedPair(i, t, "lakaii jones", "virginia parker")
    \/ NamedPair(i, t, "lyn mcdonald", "ed howarth")

SecondaryPair(i, t) == NamedPair(i, t, "liliana pizana", "emma thomae")

Spanish(n) == \E tok \in SPANISH_SET : Contains(Lower(n), tok)

Scored == f_pc = "returned"

\* C11 (as stated): the score is 5 for a preferred pair, 4 for a secondary
\* pair, otherwise 2 exactly when both names are Spanish-speaking, else 0.
C11_TwoOnlyForSpanish ==
    Scored =>
        LET i == f_in.interviewer
            t == f_in.tester
        IN  f_out = IF PreferredPair(i, t) THEN 5
                    ELSE IF SecondaryPair(i, t) THEN 4
                    ELSE IF Spanish(i) /\ Spanish(t) THEN 2
                    ELSE 0

\* C11 (amended): the score is 5 for a preferred pair, 4 for a secondary pair,
\* otherwise 2 exactly when the two names classify alike (both Spanish-speaking
\* or both not), else 0; it is always one of 0, 2, 4, 5.
C11_TwoForSameLanguage ==
    Scored =>
        LET i == f_in.interviewer
            t == f_in.tester
        IN  /\ f_out \in {0, 2, 4, 5}
            /\ f_out = 5 <=> PreferredPair(i, t)
            /\ f_out = 4 <=> ~PreferredPair(i, t) /\ SecondaryPair(i, t)
            /\ f_out = 2 <=> /\ ~PreferredPair(i, t)
                             /\ ~SecondaryPair(i, t)
                             /\ Spanish(i) <=> Spanish(t)

\* two names that are both not Spanish-speaking have been scored 2
C11_Witness ==
    /\ Scored
    /\ ~Spanish(f_in.interviewer)
    /\ ~Spanish(f_in.tester)
    /\ f_in.interviewer # ""
    /\ f_out = 2

-----------------------------------------------------------------------------
(* C12: rows with an unrecognised role label, in generate_pairings. *)

\* a label that is no solo synonym and holds none of the role words
UnrecognisedLabel(label) ==
    norm_role(label) \notin {"solo", "interviewer", "lpa", "psychometrician"}

\* the providers of the table whose every row has an unrecognised label
UnrecognisedProviders ==
    {g_table[i].Employee : i \in 1..Len(g_table)}
        \ {g_table[i].Employee : i \in {j \in 1..Len(g_table) :
                                          ~UnrecognisedLabel(g_table[j].Area)}}

\* the names a record of generate_pairings carries
RecordNames(rec) ==
    {rec[k] : k \in DOMAIN rec \cap {"interviewer", "tester"}}

GenNamed ==
    UNION {{g_events[i].Subject[k] : k \in DOMAIN g_events[i].Subject \cap {3, 5}} :
              i \in 1..Len(g_events)}
        \cup UNION {RecordNames(g_violations[i]) : i \in 1..Len(g_violations)}
        \cup UNION {RecordNames(g_gaps[i]) : i \in 1..Len(g_gaps)}

\* C12: the provider of a row with an unrecognised role label is named by no
\* event, no violation and no gap of generate_pairings.
C12_UnrecognisedRoleExcluded ==
    \A n \in UnrecognisedProviders : Str(n) \notin GenNamed

-----------------------------------------------------------------------------
(* stonebridge_scheduler_app.py: build_gcal_provider_first_from_pairs, one   *)
(* row of pairs_df at a time.  A title is kept as the pieces the f-string    *)
(* joins.                                                                    *)

\* s.upper(), on the tester texts of the universe
Upper(s) ==
    CASE s = "Solo"   -> "SOLO"
      [] s = "solo"   -> "SOLO"
      [] s = "(solo)" -> "(SOLO)"
      [] OTHER        -> s

\* sanitize_text: commas become " - ", white space is collapsed and trimmed
sanitize_text(s) ==
    CASE s = NaN                -> ""
      [] s = "Spongberg, David" -> "Spongberg - David"
      [] s = "Jane  Doe"        -> "Jane Doe"
      [] s = " Houston "        -> "Houston"
      [] OTHER                  -> s

site_short(loc) ==
    LET l == Str(loc)
    IN  IF Contains(l, "Telemedicine") THEN "Telehealth"
        ELSE IF Contains(l, "Lubbock") THEN "Lubbock Live"
        ELSE IF Contains(l, "Houston") THEN "Houston Live"
        ELSE IF \/ Contains(l, "(SA) Stonebridge Behavioral Health")
                \/ Contains(l, "Stonebridge Behavioral") THEN "San Antonio Live"
        ELSE l

DEFAULT_SPANISH_INTERVIEWERS ==
    {"Cintia Martinez", "Liliana Pizana", "Emma Thomae", "Ben Aguilar",
     "Cesar Villarreal", "Teresa Castano", "Dr. Alvarez-Sanders"}

DEFAULT_SPANISH_TESTERS == {"Belinda Castillo", "Noemi Martinez"}

TagSpanish == " (Spanish)"
TagSolo    == " (SOLO) - "
TagPrivate == " - Private - "
TagPlain   == " - "

\* lines 277-297 for one row r
GcalRecord(r, private, spanish_interviewers, spanish_testers) ==
    LET site           == site_short(r.Location)
        interviewer    == Str(r.Interviewer)
        tester         == Str(r.Tester)
        is_solo        == \/ Upper(tester) = "SOLO"
                          \/ tester = "(SOLO)"
                          \/ Strip(tester) = ""
        both_spanish   == IF ~is_solo
                          THEN interviewer \in spanish_interviewers
                                   /\ tester \in spanish_testers
                          ELSE FALSE
        spanish        == IF both_spanish THEN TagSpanish ELSE ""
        private_needed == \/ r.PsychometricianPair
                          \/ interviewer \in private
                          \/ tester \in private
        title          == IF is_solo
                          THEN <<interviewer, spanish, TagSolo, site>>
                          ELSE <<interviewer, spanish, " + ", tester, spanish,
                                 IF private_needed THEN TagPrivate ELSE TagPlain, site>>
    IN  [Subject     |-> [i \in 1..Len(title) |-> sanitize_text(title[i])],
         StartDate   |-> to_mmddyyyy(r.Date),
         EndDate     |-> to_mmddyyyy(r.Date),
         AllDayEvent |-> "True",
         Description |-> sanitize_text(Str(r.Notes)),
         Location    |-> sanitize_text(Str(r.Location))]

\* the rows of pairs_df the builder is called on: what the engine emits for
\* pairs and for solos, and the rows of an already paired schedule
GcalRows ==
    [Date : {Timestamp(2025, 11, 4)},
     Location : {SA, "Houston"},
     Interviewer : {"Jane Doe", "Kaelyn Sheen", "Liliana Pizana"},
     Tester : {"Ann Lee", "David Spongberg", "Noemi Martinez", "(SOLO)", "SOLO"},
     Notes : {NoteStandard, ""},
     Month : {month_label},
     PsychometricianPair : BOOLEAN]

InitGcal ==
    /\ RosterIdle
    /\ GenIdle
    /\ f_pc = "called"
    /\ f_in \in [row : GcalRows, private : {DEFAULT_PRIVATE, {}}]
    /\ f_out = <<>>

GcalCall ==
    /\ f_pc = "called"
    /\ f_out' = GcalRecord(f_in.row, f_in.private, DEFAULT_SPANISH_INTERVIEWERS,
                           DEFAULT_SPANISH_TESTERS)
    /\ f_pc' = "returned"
    /\ UNCHANGED <<rvars, gvars, f_in>>

NextGcal == GcalCall

SpecGcal == InitGcal /\ [][NextGcal]_vars

-----------------------------------------------------------------------------
(* C13 *)

HasPrivateTag(title) == InList(TagPrivate, title)

\* C13: the Subject built from a record carries the Private tag exactly when
\* the record's PsychometricianPair flag is set or the interviewer's or the
\* tester's name is in the private-name set, for paired and for solo records.
C13_PrivateTag ==
    f_pc = "returned" =>
        (HasPrivateTag(f_out.Subject) <=>
            \/ f_in.row.PsychometricianPair
            \/ f_in.row.Interviewer \in f_in.private
            \/ f_in.row.Tester \in f_in.private)

-----------------------------------------------------------------------------
(* General allocation at SA and at Houston: interviewers with and without a  *)
(* preferred tester, LPAs, psychometricians with and without a private name. *)

RowsPref ==
    { Row(SA, "Interviewer", "Lakaii Jones", MON),
      Row(SA, "Interviewer", "Jane Doe", MON),
      Row(SA, "LPA", "Virginia Parker", MON),
      Row(SA, "LPA", "Ann Lee", MON),
      Row(SA, "Psychometrician", "Pat Kim", MON),
      Row(SA, "Psychometrician", "Kaelyn Sheen", MON),
      Row("Houston", "Interviewer", "Lakaii Jones", MON),
      Row("Houston", "LPA", "Ann Lee", MON),
      Row("Houston", "LPA", "Virginia Parker", MON),
      Row("Houston", "Psychometrician", "Pat Kim", MON) }

InitPref == InitWith(RowsPref, {DEFAULT_PRIVATE, {}})

SpecPref == InitPref /\ [][Next]_vars

\* general allocation is at an interviewer
AtInterviewer == pc = "general" /\ queue # <<>>

\* the configured pairs, as the preference table lists them
PreferredTester(interviewer, tester) ==
    <<interviewer, tester>> \in { <<"Lakaii Jones", "Virginia Parker">>,
                                  <<"Shivani Bhakta", "Bobby Perez">>,
                                  <<"Liliana Pizana", "Emma Thomae">>,
                                  <<"Lyn McDonald", "Ed Howarth">> }

\* the step appends one pairing record for the interviewer the loop is at
PairsHeadWith(tester, note, psych_pair) ==
    final_rows' = Append(final_rows,
                         [Date |-> CurDate, Location |-> CurLoc, Interviewer |-> Head(queue),
                          Tester |-> tester, Notes |-> note, Month |-> month_label,
                          PsychometricianPair |-> psych_pair])

-----------------------------------------------------------------------------
(* C14 *)

\* a step from an interviewer whose preferred tester is in the lpa pool pairs
\* the two with the note "Preference pairing", takes the tester out of the
\* pool and adds no violation
C14_PreferenceStep ==
    \A t \in {lpas[i] : i \in 1..Len(lpas)} :
        AtInterviewer /\ PreferredTester(Head(queue), t) =>
            /\ PairsHeadWith(t, NotePreference, FALSE)
            /\ Count(t, lpas') = Count(t, lpas) - 1
            /\ Len(lpas') = Len(lpas) - 1
            /\ UNCHANGED <<violations, psychs, used_psych>>

\* a group of interviewer Lakaii Jones and LPA Virginia Parker alone
LakaiiVirginiaOnly(g) ==
    /\ Len(staffing[g].entries) = 2
    /\ EntryCount(g, "interviewer", "Lakaii Jones") = 1
    /\ EntryCount(g, "lpa", "Virginia Parker") = 1

C14_LakaiiVirginia ==
    \A g \in Processed :
        LakaiiVirginiaOnly(g) =>
            /\ Len(PairsOf(g)) = 1
            /\ PairsOf(g)[1].Interviewer = "Lakaii Jones"
            /\ PairsOf(g)[1].Tester = "Virginia Parker"
            /\ PairsOf(g)[1].Notes = NotePreference
            /\ ViolationsOf(g) = <<>>

\* C14: when general allocation reaches an interviewer whose preferred tester
\* is in the lpa pool, the two are paired with the note "Preference pairing"
\* at any site, the tester leaves the pool and no violation is added; a group
\* of Lakaii Jones and Virginia Parker alone yields one record, no violation.
C14_Preference == [](C14_LakaiiVirginia) /\ [][C14_PreferenceStep]_vars

\* away from SA, with another LPA ahead of her in the pool and a
\* psychometrician in the group, the preferred tester has been paired
C14_Witness ==
    \E g \in Processed :
        /\ staffing[g].key.loc = "Houston"
        /\ EntryCount(g, "lpa", "Ann Lee") = 1
        /\ EntryCount(g, "psychometrician", "Pat Kim") = 1
        /\ \E i \in 1..Len(PairsOf(g)) :
              /\ PairsOf(g)[i].Interviewer = "Lakaii Jones"
              /\ PairsOf(g)[i].Tester = "Virginia Parker"
              /\ PairsOf(g)[i].Notes = NotePreference

-----------------------------------------------------------------------------
(* C15 *)

\* the first psychometrician of the pool with a private name, else the first
FirstPrivateOrFirst(p) ==
    LET ks == {k \in 1..Len(psychs) : psychs[k] \in private_names}
    IN  IF ks # {} THEN p = psychs[CHOOSE k \in ks : \A j \in ks : k <= j]
        ELSE p = psychs[1]

RuleA == \E t \in {lpas[i] : i \in 1..Len(lpas)} : PreferredTester(Head(queue), t)

RuleB == CurLoc = SA /\ ~used_psych /\ psychs # <<>>

RuleC == lpas # <<>>

\* the step from an interviewer is that of the first applicable rule
C15_RuleOrderStep ==
    AtInterviewer =>
        IF RuleA
        THEN /\ \E t \in {lpas[i] : i \in 1..Len(lpas)} :
                   /\ PreferredTester(Head(queue), t)
                   /\ PairsHeadWith(t, NotePreference, FALSE)
             /\ UNCHANGED <<violations, psychs, used_psych>>
        ELSE IF RuleB
        THEN /\ \E p \in {psychs[i] : i \in 1..Len(psychs)} :
                   /\ FirstPrivateOrFirst(p)
                   /\ PairsHeadWith(p, NotePsych, TRUE)
                   /\ Count(p, psychs') = Count(p, psychs) - 1
             /\ Len(psychs') = Len(psychs) - 1
             /\ used_psych'
             /\ UNCHANGED <<violations, lpas>>
        ELSE IF RuleC
        THEN /\ PairsHeadWith(lpas[1], NoteStandard, FALSE)
             /\ lpas' = Tail(lpas)
             /\ UNCHANGED <<violations, psychs, used_psych>>
        ELSE /\ violations' = Append(violations,
                                     [Month |-> month_label, Date |-> to_mmddyyyy(CurDate),
                                      Location |-> CurLoc,
                                      Issue |-> <<"No tester available for ",
                                                  Str(Head(queue))>>])
             /\ UNCHANGED <<final_rows, lpas, psychs, used_psych>>

\* the violations of group g that general allocation emitted
GeneralViolationsOf(g) ==
    SelectSeq(ViolationsOf(g), LAMBDA v : v.Issue[1] = "No tester available for ")

\* a group that is one interviewer alone, other than the one the dual-tester
\* rule takes out of the pool: general allocation leaves no record and one
\* violation, which names the interviewer
C15_LoneInterviewer ==
    \A g \in Processed :
        \A n \in NamesOf(g, "interviewer") :
            Len(staffing[g].entries) = 1 /\ n # "Amanda Eberle" =>
                /\ PairsOf(g) = <<>>
                /\ GeneralViolationsOf(g) =
                       <<[Month |-> month_label, Date |-> to_mmddyyyy(staffing[g].key.date),
                          Location |-> staffing[g].key.loc,
                          Issue |-> <<"No tester available for ", Str(n)>>]>>

\* C15: each interviewer general allocation reaches gets the outcome of the
\* first applicable rule: the preferred tester if in the lpa pool; else at SA,
\* with the cap unused, a psychometrician (the first private one, else the
\* first); else the first LPA; else one "No tester available" violation and
\* no record.  A lone interviewer yields no record and one violation.
C15_RuleOrder == [](C15_LoneInterviewer) /\ [][C15_RuleOrderStep]_vars

\* at SA, with LPAs in the group, an interviewer got the private
\* psychometrician that was second in the pool
C15_Witness ==
    /\ private_names = DEFAULT_PRIVATE
    /\ \E g \in Processed :
          /\ staffing[g].key.loc = SA
          /\ NamesOf(g, "lpa") # {}
          /\ \E i, j \in 1..Len(staffing[g].entries) :
                /\ i < j
                /\ staffing[g].entries[i] = [r |-> "psychometrician", n |-> "Pat Kim"]
                /\ staffing[g].entries[j] = [r |-> "psychometrician", n |-> "Kaelyn Sheen"]
          /\ \E k \in 1..Len(PairsOf(g)) :
                /\ PairsOf(g)[k].Tester = "Kaelyn Sheen"
                /\ PairsOf(g)[k].Notes = NotePsych

-----------------------------------------------------------------------------
(* Lubbock on a Monday and on a Tuesday: Gaston with and without the fixed   *)
(* rule's candidates, next to another interviewer, Amanda Eberle and an LPA. *)

RowsLubbock ==
    { Row("Lubbock", "Interviewer", "Gaston Rougeaux-Burnes", MON),
      Row("Lubbock", "Interviewer", "Jane Doe", MON),
      Row("Lubbock", "Interviewer", "Amanda Eberle", MON),
      Row("Lubbock", "LPA", "Maura Brown", MON),
      Row("Lubbock", "LPA", "Tara Stevens", MON),
      Row("Lubbock", "LPA", "Ann Lee", MON),
      Row("Lubbock", "Interviewer", "Gaston Rougeaux-Burnes", TUE),
      Row("Lubbock", "Psychometrician", "Kaelyn Sheen", TUE),
      Row("Lubbock", "Psychometrician", "Kaelyn Scheen", TUE),
      Row("Lubbock", "LPA", "Ann Lee", TUE) }

InitLubbock == InitWith(RowsLubbock, {DEFAULT_PRIVATE})

SpecLubbock == InitLubbock /\ [][Next]_vars

\* group g is a Lubbock group; its Gaston interviewers
LubbockGroup(g) == Lower(Strip(Str(staffing[g].key.loc))) = "lubbock"

GastonsOf(g) == {n \in NamesOf(g, "interviewer") : IsText(n) /\ Contains(n, "Gaston")}

TuesdayGroup(g) == DayName(staffing[g].key.date) = "Tuesday"

\* the fixed rule's candidates of group g, in priority order, and their pool
CandidatesOf(g) ==
    IF TuesdayGroup(g) THEN <<"Kaelyn Sheen", "Kaelyn Scheen">>
    ELSE <<"Maura Brown", "Tara Stevens">>

CandidateRole(g) == IF TuesdayGroup(g) THEN "psychometrician" ELSE "lpa"

PresentCandidates(g) ==
    SelectSeq(CandidatesOf(g), LAMBDA c : EntryCount(g, CandidateRole(g), c) > 0)

\* the pairing records of group g with n as interviewer, with t as tester
RecordsOf(g, n) == SelectSeq(PairsOf(g), LAMBDA r : r.Interviewer = n)

TesterRecords(g, t) == SelectSeq(PairsOf(g), LAMBDA r : r.Tester = t)

\* n is the Gaston of Lubbock group g
OneGaston(g, n) ==
    /\ LubbockGroup(g)
    /\ GastonsOf(g) = {n}

-----------------------------------------------------------------------------
(* C16 *)

\* C16: in a Lubbock group with Gaston and a candidate of the day's rule in
\* its pool, Gaston has exactly one pairing record, with the first present
\* candidate in priority order and the rule's note; the candidate is the
\* tester of no other record, and general allocation adds neither a record
\* nor a violation for Gaston.
C16_FixedPairingMatched ==
    \A g \in Processed :
        \A n \in GastonsOf(g) :
            OneGaston(g, n) /\ PresentCandidates(g) # <<>> =>
                LET c == PresentCandidates(g)[1]
                IN  /\ Len(RecordsOf(g, n)) = 1
                    /\ RecordsOf(g, n)[1].Tester = c
                    /\ RecordsOf(g, n)[1].Notes =
                           (IF TuesdayGroup(g) THEN NoteTuesday
                            ELSE IF c = "Maura Brown" THEN NoteMaura ELSE NoteFixed)
                    /\ EntryCount(g, CandidateRole(g), c) = 1 => Len(TesterRecords(g, c)) = 1
                    /\ IssueCount(g, <<"No tester available for ", n>>) = 0

-----------------------------------------------------------------------------
(* C17 *)

\* Lubbock groups where the fixed rule finds no candidate: a Monday without
\* Maura Brown and Tara Stevens, a Tuesday without a Kaelyn
RowsUnmatched ==
    { Row("Lubbock", "Interviewer", "Gaston Rougeaux-Burnes", MON),
      Row("Lubbock", "Interviewer", "Amanda Eberle", MON),
      Row("Lubbock", "LPA", "Ann Lee", MON),
      Row("Lubbock", "Interviewer", "Gaston Rougeaux-Burnes", TUE),
      Row("Lubbock", "LPA", "Ann Lee", TUE) }

InitUnmatched == InitWith(RowsUnmatched, {DEFAULT_PRIVATE})

\* the engine is a sequential program: while it has a step to take, it takes it
SpecUnmatched == InitUnmatched /\ [][Next]_vars /\ WF_vars(Next)

\* the violation the fixed rule emits for group g when no candidate is there
MissingCandidates(g) ==
    [Month |-> month_label, Date |-> to_mmddyyyy(staffing[g].key.date),
     Location |-> staffing[g].key.loc,
     Issue |-> IF TuesdayGroup(g)
               THEN <<"Lubbock Tuesday: Missing psychometrician (Kaelyn) for Gaston">>
               ELSE <<"Lubbock Mon/Wed: Missing Tara/Maura for Gaston">>]

\* the fixed rule is about to run on group g, which has Gaston and none of
\* the day's candidates
Unmatched(g, n) ==
    /\ g <= Len(staffing)
    /\ ~IsNa(staffing[g].key.date)
    /\ OneGaston(g, n)
    /\ PresentCandidates(g) = <<>>

\* the rule's step in the unmatched case: one violation, no pool changed
C17_UnmatchedStep ==
    \A n \in {interviewers[i] : i \in 1..Len(interviewers)} :
        pc = "lubbock" /\ Unmatched(gi, n) =>
            /\ violations' = Append(violations, MissingCandidates(gi))
            /\ UNCHANGED <<interviewers, lpas, psychs, final_rows>>
            /\ InList(n, interviewers')

\* the generic outcome for n in group g: for each of n's rows one record made
\* by general allocation or one "No tester available" violation
GenericOutcome(g, n) ==
    /\ \A i \in 1..Len(RecordsOf(g, n)) :
          RecordsOf(g, n)[i].Notes \in {NotePreference, NotePsych, NoteStandard}
    /\ Len(RecordsOf(g, n)) + IssueCount(g, <<"No tester available for ", n>>)
           = EntryCount(g, "interviewer", n)

\* when the group has been processed: the one violation of the rule, and the
\* generic outcome for Gaston
C17_UnmatchedDone ==
    \A g \in Processed :
        \A n \in GastonsOf(g) :
            Unmatched(g, n) =>
                /\ Len(SelectSeq(ViolationsOf(g), LAMBDA v : v = MissingCandidates(g))) = 1
                /\ GenericOutcome(g, n)

\* the rule has just run on the current group in the unmatched case
JustUnmatched ==
    /\ pc = "eberle"
    /\ \E n \in GastonsOf(gi) : Unmatched(gi, n)

\* a group of the unmatched case has just ended with the generic outcome
GastonSettled ==
    /\ JustProcessed
    /\ \E n \in GastonsOf(gi - 1) : Unmatched(gi - 1, n) /\ GenericOutcome(gi - 1, n)

\* C17: in a Lubbock group with Gaston and none of the day's candidates, the
\* fixed rule emits exactly one violation naming the missing candidates and
\* changes no pool; Gaston stays in the interviewer pool, and general
\* allocation afterwards ends in a pairing record or a "No tester available"
\* violation for Gaston.
C17_FixedPairingUnmatched ==
    /\ [](C17_UnmatchedDone)
    /\ [][C17_UnmatchedStep]_vars
    /\ JustUnmatched ~> GastonSettled

\* after the rule found no candidate, Gaston was paired by standard pairing
\* in one group and flagged in another, next to Amanda Eberle
C17_Witness ==
    \E g, h \in Processed :
        \E n \in GastonsOf(g) \cap GastonsOf(h) :
            /\ Unmatched(g, n)
            /\ Len(RecordsOf(g, n)) = 1
            /\ RecordsOf(g, n)[1].Notes = NoteStandard
            /\ Unmatched(h, n)
            /\ "Amanda Eberle" \in NamesOf(h, "interviewer")
            /\ IssueCount(h, <<"No tester available for ", n>>) = 1

-----------------------------------------------------------------------------
(* Amanda Eberle at Houston and at Lubbock, next to other interviewers, with *)
(* none, some or both of her preferred testers among the LPAs.               *)

RowsEberle ==
    { Row("Houston", "Interviewer", "Amanda Eberle", MON),
      Row("Houston", "Interviewer", "Jane Doe", MON),
      Row("Houston", "LPA", "Ann Lee", MON),
      Row("Houston", "LPA", "Virginia Parker", MON),
      Row("Houston", "LPA", "Dmitriy Lazarevich", MON),
      Row("Houston", "LPA", "Maura Brown", MON),
      Row("Lubbock", "Interviewer", "Amanda Eberle", MON),
      Row("Lubbock", "Interviewer", "Gaston Rougeaux-Burnes", MON),
      Row("Lubbock", "LPA", "Maura Brown", MON),
      Row("Lubbock", "LPA", "Ann Lee", MON) }

InitEberle == InitWith(RowsEberle, {DEFAULT_PRIVATE})

SpecEberle == InitEberle /\ [][Next]_vars

\* the names of s, each once, in order of first occurrence
Dedup(s) ==
    LET firsts == {i \in 1..Len(s) : \A j \in 1..(i - 1) : s[j] # s[i]}
    IN  [k \in 1..Cardinality(firsts) |->
            s[CHOOSE i \in firsts : Cardinality({j \in firsts : j < i}) = k - 1]]

\* the dual-tester step is about to run with Amanda Eberle in the pool
AtDualTester == pc = "eberle" /\ InList("Amanda Eberle", interviewers)

\* the testers the rule is to take: the preferred names that are in the pool,
\* then the other names in pool order, two at most
DualTesters ==
    LET names == SelectSeq(<<"Maura Brown", "Dmitriy Lazarevich">>,
                           LAMBDA p : InList(p, lpas))
                     \o SelectSeq(Dedup(lpas),
                                  LAMBDA t : t \notin {"Maura Brown", "Dmitriy Lazarevich"})
    IN  SubSeq(names, 1, IF Len(names) < 2 THEN Len(names) ELSE 2)

-----------------------------------------------------------------------------
(* C18 *)

\* C18: with Amanda Eberle in the interviewer pool at the dual-tester step,
\* testers are taken from the lpa pool, Maura Brown and Dmitriy Lazarevich
\* first and then in pool order, until 2 are assigned or the pool is empty;
\* one record is emitted per assigned tester, the testers are distinct, and
\* one violation "requires 2 testers (short k)", k = 2 less the number
\* assigned, is emitted exactly when fewer than 2 were assigned.
C18_DualTesterStep ==
    AtDualTester =>
        LET a == DualTesters
        IN  /\ final_rows' = final_rows \o
                   [i \in 1..Len(a) |->
                       [Date |-> CurDate, Location |-> CurLoc,
                        Interviewer |-> "Amanda Eberle", Tester |-> a[i],
                        Notes |-> NoteEberle, Month |-> month_label,
                        PsychometricianPair |-> FALSE]]
            /\ \A i, j \in 1..Len(a) : i # j => a[i] # a[j]
            /\ Len(a) = 2 \/ lpas' = <<>>
            /\ \A t \in {lpas'[i] : i \in 1..Len(lpas')} : Count(t, lpas') <= Count(t, lpas)
            /\ violations' = IF Len(a) < 2
                             THEN Append(violations,
                                         [Month |-> month_label,
                                          Date |-> to_mmddyyyy(CurDate),
                                          Location |-> CurLoc,
                                          Issue |-> <<"Amanda Eberle requires 2 testers (short ",
                                                      IntText(2 - Len(a)), ")">>])
                             ELSE violations
            /\ UNCHANGED psychs

C18_DualTester == [][C18_DualTesterStep]_vars

\* a preferred tester was taken from behind another LPA, together with that
\* one; in another group no tester was there
C18_Witness ==
    /\ \E g \in Processed :
          \E i, j \in 1..Len(staffing[g].entries) :
              /\ i < j
              /\ staffing[g].entries[i] = [r |-> "lpa", n |-> "Ann Lee"]
              /\ staffing[g].entries[j] = [r |-> "lpa", n |-> "Dmitriy Lazarevich"]
              /\ Len(SelectSeq(PairsOf(g), LAMBDA r : r.Notes = NoteEberle)) = 2
              /\ SelectSeq(PairsOf(g), LAMBDA r : r.Notes = NoteEberle)[1].Tester
                     = "Dmitriy Lazarevich"
    /\ \E g \in Processed : IssueCount(g, IssueEberle(2)) = 1

-----------------------------------------------------------------------------
(* C19 *)

\* C19: general allocation emits no record (preference, psychometrician or
\* standard pairing) and no "No tester available" violation for Amanda Eberle.
C19_EberleOutOfPool ==
    \A g \in Processed :
        /\ \A i \in 1..Len(RecordsOf(g, "Amanda Eberle")) :
              RecordsOf(g, "Amanda Eberle")[i].Notes = NoteEberle
        /\ IssueCount(g, <<"No tester available for ", "Amanda Eberle">>) = 0

-----------------------------------------------------------------------------
(* C20 *)

\* the events that pair an interviewer, and the ones that leave one unpaired
IsPairEvent(e) == e.Subject[2] = " | Pairing: "

IsInterviewerGapEvent(e) == e.Subject[2] = " | GAP: " /\ e.Subject[4] = " (no tester)"

\* the group of a pairing event or of an interviewer's gap event
EventKey(e) ==
    [site |-> e.Location, date |-> e.StartDate,
     modality |-> IF IsPairEvent(e) THEN e.Description[4] ELSE e.Description[2]]

\* the testers of event k's group, in input order, that no earlier event of the
\* group has paired
RemainingAt(k) ==
    LET key   == EventKey(g_events[k])
        taken == {g_events[j].Subject[5] :
                     j \in {m \in 1..(k - 1) : /\ IsPairEvent(g_events[m])
                                               /\ EventKey(g_events[m]) = key}}
    IN  SelectSeq(Providers(g_df, key, "tester"), LAMBDA t : t \notin taken)

\* C20: each pairing event of generate_pairings gives the interviewer the
\* remaining tester of highest preferred_score, and among equal scores the
\* earliest of the remaining testers in input order; an interviewer is left
\* unpaired only when no tester remains.
C20_StableFirstFit ==
    \A k \in 1..Len(g_events) :
        LET e   == g_events[k]
            rem == RemainingAt(k)
        IN  /\ IsPairEvent(e) =>
                  /\ InList(e.Subject[5], rem)
                  /\ \A m \in 1..Len(rem) :
                        /\ preferred_score(e.Subject[3], rem[m])
                               <= preferred_score(e.Subject[3], e.Subject[5])
                        /\ preferred_score(e.Subject[3], rem[m])
                               = preferred_score(e.Subject[3], e.Subject[5])
                           => IndexOf(e.Subject[5], rem) <= m
            /\ IsInterviewerGapEvent(e) => rem = <<>>

-----------------------------------------------------------------------------
(* Lubbock on a Monday and on a Thursday: Gaston with and without Maura      *)
(* Brown and Tara Stevens, next to another interviewer and an LPA.           *)

THU == "2025-11-06"

RowsWeekdays ==
    { Row("Lubbock", "Interviewer", "Gaston Rougeaux-Burnes", MON),
      Row("Lubbock", "LPA", "Tara Stevens", MON),
      Row("Lubbock", "Interviewer", "Gaston Rougeaux-Burnes", THU),
      Row("Lubbock", "Interviewer", "Jane Doe", THU),
      Row("Lubbock", "LPA", "Tara Stevens", THU),
      Row("Lubbock", "LPA", "Maura Brown", THU),
      Row("Lubbock", "LPA", "Ann Lee", THU) }

InitWeekdays == InitWith(RowsWeekdays, {DEFAULT_PRIVATE})

SpecWeekdays == InitWeekdays /\ [][Next]_vars

\* group g falls on a Monday or a Wednesday
MonWedGroup(g) == DayName(staffing[g].key.date) \in {"Monday", "Wednesday"}

\* group g shows the output of the fixed LPA pairing: one of its two notes
\* or its violation
FixedLpaOutput(g) ==
    \/ \E k \in 1..Len(PairsOf(g)) : PairsOf(g)[k].Notes \in {NoteFixed, NoteMaura}
    \/ \E k \in 1..Len(ViolationsOf(g)) : ViolationsOf(g)[k].Issue = IssueLubbockMonWed

-----------------------------------------------------------------------------
(* C21 *)

\* C21: a record with note "Lubbock fixed pairing" or "Lubbock note: Maura
\* Brown paired with Gaston", and the violation "Lubbock Mon/Wed: Missing
\* Tara/Maura for Gaston", exist only for groups dated a Monday or a
\* Wednesday.
C21_MonWedOnly ==
    \A g \in 1..Len(staffing) : FixedLpaOutput(g) => MonWedGroup(g)

-----------------------------------------------------------------------------
(* C22 *)

Min(a, b) == IF a <= b THEN a ELSE b

\* the testers general allocation can still hand out in the group it is at:
\* every LPA of the pool, and at SA one psychometrician while the cap is unused
Units ==
    Len(lpas) + IF CurLoc = SA /\ psychs # <<>> /\ ~used_psych THEN 1 ELSE 0

\* a step from an interviewer pairs that interviewer exactly when a tester can
\* still be handed out, and a pairing uses up one of them
C22_GreedyStep ==
    AtInterviewer =>
        IF Units > 0
        THEN /\ Len(final_rows') = Len(final_rows) + 1
             /\ final_rows'[Len(final_rows')].Interviewer = Head(queue)
             /\ final_rows'[Len(final_rows')].Tester # "(SOLO)"
             /\ Units' = Units - 1
             /\ Len(interviewers') = Len(interviewers) - 1
        ELSE /\ UNCHANGED <<final_rows, interviewers>>
             /\ Units' = 0

\* the records of group g that general allocation made, and the ones among
\* them with a psychometrician
GeneralPairsOf(g) ==
    SelectSeq(PairsOf(g), LAMBDA r : r.Notes \in {NotePreference, NotePsych, NoteStandard})

GeneralPsychs(g) == SelectSeq(PairsOf(g), LAMBDA r : r.Notes = NotePsych)

\* neither the Lubbock rule nor the dual-tester rule acts on group g: general
\* allocation starts from the pools the group's rows give
StartsFromRows(g) ==
    /\ ~(LubbockGroup(g) /\ GastonsOf(g) # {})
    /\ "Amanda Eberle" \notin NamesOf(g, "interviewer")

\* the number of records of such a group, from its rows
C22_FromRows ==
    \A g \in Processed :
        StartsFromRows(g) =>
            LET p == Partition(staffing[g].entries)
            IN  Len(PairsOf(g)) =
                    Min(Len(p.interviewers),
                        Len(p.lpas) + IF staffing[g].key.loc = SA /\ p.psychs # <<>>
                                      THEN 1 ELSE 0)

\* the number of general records of the group that has just ended, from what
\* general allocation left: the interviewers still in the pool are the ones
\* it did not pair, the LPAs and psychometricians it paired are out of theirs
C22_FromPools ==
    JustProcessed =>
        LET g  == gi - 1
            n  == Len(GeneralPairsOf(g))
            np == Len(GeneralPsychs(g))
        IN  n = Min(Len(interviewers) + n,
                    (Len(lpas) + (n - np)) +
                        IF staffing[g].key.loc = SA /\ (psychs # <<>> \/ np > 0)
                        THEN 1 ELSE 0)

\* C22: general allocation pairs as many interviewers as can be paired: the
\* number it pairs in a group is the smaller of the number of interviewers in
\* the pool when it starts and the number of LPAs in the pool when it starts,
\* plus one at SA when the psychometrician pool is not empty.
C22_MaximalPairing == [](C22_FromRows /\ C22_FromPools) /\ [][C22_GreedyStep]_vars

\* an SA group of two interviewers and two psychometricians: one interviewer
\* is paired under the cap, the other is left without a tester
C22_Witness ==
    \E g \in Processed :
        /\ staffing[g].key.loc = SA
        /\ Len(Partition(staffing[g].entries).interviewers) = 2
        /\ Len(Partition(staffing[g].entries).psychs) = 2
        /\ Len(PairsOf(g)) = 1
        /\ Len(GeneralViolationsOf(g)) = 1

-----------------------------------------------------------------------------
(* A Monday at Lubbock and at SA, where every pairing step has work: Gaston  *)
(* and Amanda Eberle both want Maura Brown, Lakaii Jones prefers Virginia    *)
(* Parker, and SA has a psychometrician.                                     *)

RowsTesters ==
    { Row("Lubbock", "Interviewer", "Gaston Rougeaux-Burnes", MON),
      Row("Lubbock", "Interviewer", "Amanda Eberle", MON),
      Row("Lubbock", "Interviewer", "Jane Doe", MON),
      Row("Lubbock", "LPA", "Maura Brown", MON),
      Row("Lubbock", "LPA", "Ann Lee", MON),
      Row(SA, "Interviewer", "Lakaii Jones", MON),
      Row(SA, "Interviewer", "Jane Doe", MON),
      Row(SA, "LPA", "Virginia Parker", MON),
      Row(SA, "Psychometrician", "Kaelyn Sheen", MON) }

InitTesters == InitWith(RowsTesters, {DEFAULT_PRIVATE})

SpecTesters == InitTesters /\ [][Next]_vars

\* how many lpa and psychometrician rows of group g carry the name t
TesterRows(g, t) == EntryCount(g, "lpa", t) + EntryCount(g, "psychometrician", t)

\* the names that are Tester of a pairing record of group g
PairedTesters(g) == {PairsOf(g)[k].Tester : k \in 1..Len(PairsOf(g))}

\* the engine is inside a group: the pools are that group's
InsideGroup == pc \in {"solos", "lubbock", "eberle", "general"}

-----------------------------------------------------------------------------
(* C23 *)

\* no name is Tester of more records of a group than it has tester rows there
C23_RecordsWithinRows ==
    \A g \in 1..Len(staffing) :
        \A t \in PairedTesters(g) : Len(TesterRecords(g, t)) <= TesterRows(g, t)

\* while a group is being processed, what is left of a name in the two pools
\* and its records so far never exceed its tester rows: a record takes its
\* tester out of the pool
C23_PoolsAndRecords ==
    InsideGroup =>
        \A t \in {staffing[gi].entries[i].n : i \in 1..Len(staffing[gi].entries)} :
            Count(t, lpas) + Count(t, psychs) + Len(TesterRecords(gi, t)) <= TesterRows(gi, t)

\* C23: within a group each tester row is consumed at most once across the
\* Lubbock fixed pairing, the dual-tester rule and the preference,
\* psychometrician and standard pairings: a name is Tester of no more pairing
\* records of the group than it has lpa and psychometrician rows there.
C23_TesterConsumedOnce == C23_RecordsWithinRows /\ C23_PoolsAndRecords

\* Gaston and Amanda Eberle both wanted Maura Brown, present once: she is
\* paired with Gaston only and Amanda Eberle is one tester short
C23_Witness ==
    \E g \in Processed :
        /\ TesterRows(g, "Maura Brown") = 1
        /\ \E k \in 1..Len(PairsOf(g)) :
              /\ PairsOf(g)[k].Tester = "Maura Brown"
              /\ PairsOf(g)[k].Notes = NoteMaura
        /\ Len(TesterRecords(g, "Maura Brown")) = 1
        /\ DualCount(g) = 1
        /\ IssueCount(g, IssueEberle(1)) = 1

-----------------------------------------------------------------------------
(* Both engines, each on rosters of its own: build_pairings_from_roster on   *)
(* the Houston and Lubbock days of Amanda Eberle, generate_pairings on the   *)
(* Deputy tables.                                                            *)

InitEngines == InitEberle \/ InitGen

NextEngines == Next \/ NextGen

SpecEngines == InitEngines /\ [][NextEngines]_vars

\* group g has an interviewer flagged for want of a tester: "No tester
\* available", or the dual-tester shortfall
Starved(g) ==
    \/ GeneralViolationsOf(g) # <<>>
    \/ \E k \in 1..2 : IssueCount(g, IssueEberle(k)) > 0

\* the issue texts of the two flags start with these
StarvedIssues ==
    {"No tester available for ", "Amanda Eberle requires 2 testers (short "}

\* the groups generate_pairings has processed
GenProcessed == 1..(g_gi - 1)

\* generate_pairings flagged an unpaired interviewer in the group of key k
GenStarved(k) ==
    \E i \in 1..Len(g_violations) :
        /\ g_violations[i].type = "Unpaired Interviewer"
        /\ GenKey(g_violations[i]) = k

\* the testers generate_pairings reports as unassigned in the group of key k
GenUnassigned(k) ==
    {g_gaps[i].tester : i \in {j \in 1..Len(g_gaps) : /\ "tester" \in DOMAIN g_gaps[j]
                                                       /\ GenKey(g_gaps[j]) = k}}

-----------------------------------------------------------------------------
(* C24 *)

\* in a processed group with a flagged interviewer every LPA of the group is
\* the tester of a record
C24_EveryLpaPaired ==
    \A g \in Processed :
        Starved(g) =>
            LET lp == Partition(staffing[g].entries).lpas
            IN  \A i \in 1..Len(lp) : TesterRecords(g, lp[i]) # <<>>

\* the group that has just ended left its lpa pool empty if it has a flagged
\* interviewer
C24_PoolEmptied == JustProcessed /\ Starved(gi - 1) => lpas = <<>>

\* generate_pairings: a group with an unpaired interviewer has no unassigned
\* tester
C24_GenNoneUnassigned ==
    \A k \in GenProcessed : GenStarved(g_keys[k]) => GenUnassigned(g_keys[k]) = {}

\* a step that adds one of the two flags leaves the lpa pool empty
C24_EmitStep ==
    \A k \in (Len(violations) + 1)..Len(violations') :
        violations'[k].Issue[1] \in StarvedIssues => lpas' = <<>>

\* inside a group no name gains an occurrence in the lpa pool
C24_NoRefillStep ==
    InsideGroup =>
        /\ Len(lpas') <= Len(lpas)
        /\ \A i \in 1..Len(lpas') : Count(lpas'[i], lpas') <= Count(lpas'[i], lpas)

\* C24: no LPA is left idle next to an unpaired interviewer.  In
\* build_pairings_from_roster a "No tester available" violation or a
\* dual-tester shortfall is emitted only with the lpa pool empty, the pool
\* never refills, and a processed group with such a violation has every LPA in
\* a record; in generate_pairings a group with an "Unpaired Interviewer"
\* violation has no unassigned tester.
C24_NoIdleLpa ==
    /\ [](C24_EveryLpaPaired /\ C24_PoolEmptied /\ C24_GenNoneUnassigned)
    /\ [][C24_EmitStep /\ C24_NoRefillStep]_vars

\* Amanda Eberle got the only LPA of the group and is one tester short, and
\* the interviewer after her was flagged "No tester available"
C24_Witness ==
    \E g \in Processed :
        /\ Partition(staffing[g].entries).lpas # <<>>
        /\ DualCount(g) = 1
        /\ IssueCount(g, IssueEberle(1)) = 1
        /\ GeneralViolationsOf(g) # <<>>

-----------------------------------------------------------------------------
(* C25 *)

\* interviewer i of group g has a preferred tester, t, who is an LPA of g
PreferredPairPresent(g, i, t) ==
    /\ PreferredTester(i, t)
    /\ InList(i, Partition(staffing[g].entries).interviewers)
    /\ InList(t, Partition(staffing[g].entries).lpas)

\* C25: in a processed group, an interviewer with an entry in the preference
\* table whose preferred tester is an LPA of the same group is paired with
\* that tester: no earlier step hands the tester to someone else.
C25_PreferredPairHonoured ==
    \A g \in Processed :
        \A i \in NamesOf(g, "interviewer") :
            \A t \in NamesOf(g, "lpa") :
                PreferredPairPresent(g, i, t) =>
                    \E k \in 1..Len(PairsOf(g)) :
                        /\ PairsOf(g)[k].Interviewer = i
                        /\ PairsOf(g)[k].Tester = t

====
